---------------------------- MODULE Spec2Model ----------------------------
(***************************************************************************)
(* A model of tinyrl (src/tinyrl.c): the edit buffer and its primitive     *)
(* mutators, the key-dispatch trie, the incremental redisplay and the      *)
(* interactive read loop.                                                  *)
(*                                                                         *)
(* Memory.  A C object is a sequence of cells; cell i of the C code is     *)
(* element i+1 of the sequence.  A cell holds a byte 0..255 or the value   *)
(* Indeterminate (fresh bytes of realloc).  The NULL pointer to a string   *)
(* is NullStr, the NULL buffer is the empty sequence of cells.             *)
(* An access outside an object, or a read of an Indeterminate cell that    *)
(* decides a result, is undefined behaviour: the step sets ub, and in a    *)
(* state with ub set no field of the session has a defined value (every    *)
(* outcome is possible), so no statement about the session holds there.    *)
(* Allocation is taken to succeed.                                         *)
(***************************************************************************)
EXTENDS Integers, Sequences, FiniteSets, TLC

VARIABLES
    this,       \* struct tinyrl
    pc,         \* "idle": outside tinyrl_readline; "editing": inside the loop
                \* of tinyrl_readtty, at its blocking read of a key
    istream,    \* bytes waiting on the input stream
    result,     \* what the last readline call returned (NullStr during a call)
    ub,         \* undefined behaviour has been executed
    ws_col,     \* the columns the terminal-size query reports (0: it fails)
    foreign,    \* set_line installed a caller's string during this call
    lastop,     \* the last step taken and what its call returned
    transcript, \* the mocked output stream of a scripted session
    input0,     \* the mocked input stream a scripted session started with
    termios     \* tty: the attributes of the terminal; saved: what
                \* default_termios of tinyrl_readtty holds, {} before it is set

vars == <<this, pc, istream, result, ub, ws_col, foreign, lastop, transcript,
          input0, termios>>

-----------------------------------------------------------------------------
(* Bounds of the model *)

\* longest line (in bytes) an editing step may produce
MaxEnd == 3
\* keys of a scripted session, the named scenarios apart
MaxScript == 3
\* the chunks a line of the non-interactive streams fills, at most
MaxChunks == 2
\* sizeof(buffer) in tinyrl_readraw, which is 80 in the source, scaled down:
\* the loop uses the size only as the limit of fgets and in the test
\* sizeof(buffer) == len, and the lines of the streams are sized by it
ChunkSize == 6

-----------------------------------------------------------------------------
(* Program constants *)

ESCAPE == 27
BACKSPACE == 127
\* the growth step of the unlimited line buffer
GrowStep == 10
\* the terminal width assumed when the size query fails
DefaultWidth == 80

NUL == 0
BEL == 7
LF == 10
CR == 13

Indeterminate == -1
NullStr == <<-2>>

CTRL(c) == c - 64

Max(a, b) == IF a > b THEN a ELSE b

\* cell i (C index, from 0) of object s
At(s, i) == s[i + 1]

\* the cells [from, to) of s
Cells(s, from, to) == SubSeq(s, from + 1, to)

-----------------------------------------------------------------------------
(* C strings *)

RECURSIVE ScanLen(_, _)
\* strlen(&s[i]): the number of cells from i to the first NUL; -1 when the
\* scan leaves the object or meets an Indeterminate cell first
ScanLen(s, i) ==
    IF i >= Len(s) THEN -1
    ELSE IF At(s, i) = Indeterminate THEN -1
    ELSE IF At(s, i) = NUL THEN 0
    ELSE LET n == ScanLen(s, i + 1) IN IF n < 0 THEN -1 ELSE n + 1

strlen(s) == ScanLen(s, 0)

\* strdup(&s[i]) as an object: the bytes and their terminator
strdup_at(s, i) == Cells(s, i, i + ScanLen(s, i)) \o <<NUL>>

\* the bytes of the C string held in object s
Bytes(s) == Cells(s, 0, strlen(s))

\* the object of a string literal / caller's string with bytes t
Obj(t) == t \o <<NUL>>

isspace(c) == c \in {32, 9, 10, 11, 12, 13}

-----------------------------------------------------------------------------
(* UTF-8 primitives (utf8.h) *)

IsCont(c) == c >= 128 /\ c <= 191

\* U+0300..U+036F (combining marks) are the two-byte sequences CC 80..CD AF
IsCombiningAt(s, len, p) ==
    /\ p + 1 < len
    /\ \/ At(s, p) = 204 /\ IsCont(At(s, p + 1))
       \/ At(s, p) = 205 /\ At(s, p + 1) >= 128 /\ At(s, p + 1) <= 175

utf8_char_len(c) ==
    IF c < 128 THEN 1
    ELSE IF c >= 194 /\ c <= 223 THEN 2
    ELSE IF c >= 224 /\ c <= 239 THEN 3
    ELSE IF c >= 240 /\ c <= 244 THEN 4
    ELSE 0

\* the length of the character key decodes to, 0 when it is not valid
utf8_char_decode(key, key_len) ==
    IF /\ key_len >= 1
       /\ utf8_char_len(key[1]) = key_len
       /\ \A i \in 2..key_len : IsCont(key[i])
    THEN key_len ELSE 0

RECURSIVE utf8_char_next(_, _, _)
\* the offset of the character after the one at point
utf8_char_next(s, len, point) ==
    IF point + 1 >= len THEN len
    ELSE IF IsCont(At(s, point + 1)) THEN utf8_char_next(s, len, point + 1)
    ELSE point + 1

RECURSIVE utf8_char_prev(_, _, _)
\* the offset of the character before point
utf8_char_prev(s, len, point) ==
    IF point <= 1 THEN 0
    ELSE IF IsCont(At(s, point - 1)) THEN utf8_char_prev(s, len, point - 1)
    ELSE point - 1

RECURSIVE utf8_grapheme_next(_, _, _)
\* the offset of the grapheme after the one at point: its character and the
\* combining marks that follow it
utf8_grapheme_next(s, len, point) ==
    LET n == utf8_char_next(s, len, point) IN
    IF n < len /\ IsCombiningAt(s, len, n) THEN utf8_grapheme_next(s, len, n)
    ELSE n

RECURSIVE utf8_grapheme_prev(_, _, _)
\* the offset of the grapheme before point
utf8_grapheme_prev(s, len, point) ==
    LET p == utf8_char_prev(s, len, point) IN
    IF p > 0 /\ IsCombiningAt(s, len, p) THEN utf8_grapheme_prev(s, len, p)
    ELSE p

\* the display columns of the grapheme at point
utf8_grapheme_width(s, len, point) ==
    IF IsCombiningAt(s, len, point) THEN 0 ELSE 1

-----------------------------------------------------------------------------
(* Cells of an object *)

\* memmove(&s[dst], &s[src], n) inside one object
memmove(s, dst, src, n) ==
    [i \in 1..Len(s) |->
        IF i - 1 >= dst /\ i - 1 < dst + n THEN At(s, src + (i - 1 - dst))
        ELSE s[i]]

\* s[at], s[at+1], ... := the elements of bytes
Store(s, at, bytes) ==
    [i \in 1..Len(s) |->
        IF i - 1 >= at /\ i - 1 < at + Len(bytes) THEN bytes[i - at]
        ELSE s[i]]

\* realloc(s, n): the first cells are kept, the new ones are indeterminate
realloc(s, n) ==
    [i \in 1..n |-> IF i <= Len(s) THEN s[i] ELSE Indeterminate]

\* what strncpy(dst, text, delta) writes: the bytes of text, NUL-padded
strncpy_bytes(text, delta) ==
    [i \in 1..delta |-> IF i <= Len(text) THEN text[i] ELSE NUL]

-----------------------------------------------------------------------------
(* The execution of a call: x.s is the session (struct tinyrl), x.out the  *)
(* bytes written to ostream so far, x.ret the value the last call          *)
(* returned, x.result what tinyrl_readline returns, x.ub whether undefined *)
(* behaviour was executed.                                                 *)

Enter(s) ==
    [s |-> s, out |-> <<>>, ret |-> TRUE, result |-> <<-2>>, ub |-> FALSE]

Undefined(x) == [x EXCEPT !.ub = TRUE]

tinyrl_printf(x, bytes) == [x EXCEPT !.out = @ \o bytes]

tinyrl_crlf(x) == tinyrl_printf(x, <<LF>>)

tinyrl_ding(x) == tinyrl_printf(x, <<BEL>>)

\* the object this->line points to
LineObj(s) ==
    IF s.line.ref = "buffer" THEN s.buffer
    ELSE IF s.line.ref = "text" THEN Obj(s.line.text)
    ELSE <<>>

ToBuffer == [ref |-> "buffer", text |-> <<>>]
ToText(t) == [ref |-> "text", text |-> t]
ToNull == [ref |-> "null", text |-> <<>>]

\* changed_line without the copy: line is pointed at the buffer as it is
changed_line_NoCopy(x) ==
    IF x.ub THEN x
    ELSE IF x.s.line.ref = "null" THEN Undefined(x)
    ELSE [x EXCEPT !.s.line = ToBuffer]

changed_line(x) ==
    IF x.ub THEN x
    ELSE IF x.s.line.ref = "buffer" THEN x
    ELSE IF x.s.line.ref = "null" THEN Undefined(x)
    ELSE [x EXCEPT !.s.buffer = Obj(x.s.line.text),
                   !.s.line = ToBuffer,
                   !.s.buffer_size = Len(x.s.line.text)]

\* the extension that refuses a line over the limit without the bell
tinyrl_extend_line_buffer_Quiet(x, len) ==
    IF x.ub THEN x
    ELSE IF x.s.buffer_size >= len THEN [x EXCEPT !.ret = TRUE]
    ELSE IF x.s.max_line_length = 0 \/ len < x.s.max_line_length THEN
        LET size == IF x.s.max_line_length # 0 THEN x.s.max_line_length - 1
                    ELSE Max(len, x.s.buffer_size + GrowStep)
        IN [x EXCEPT !.s.buffer_size = size,
                     !.s.buffer = realloc(x.s.buffer, size + 1),
                     !.s.line = ToBuffer,
                     !.ret = TRUE]
    ELSE [x EXCEPT !.ret = FALSE]

tinyrl_extend_line_buffer(x, len) ==
    IF x.ub THEN x
    ELSE IF x.s.buffer_size >= len THEN [x EXCEPT !.ret = TRUE]
    ELSE IF x.s.max_line_length = 0 THEN
        LET new_len == IF len < x.s.buffer_size + GrowStep
                       THEN x.s.buffer_size + GrowStep ELSE len
        IN [x EXCEPT !.s.buffer_size = new_len,
                     !.s.buffer = realloc(x.s.buffer, new_len + 1),
                     !.s.line = ToBuffer,
                     !.ret = TRUE]
    ELSE IF len < x.s.max_line_length THEN
        [x EXCEPT !.s.buffer_size = x.s.max_line_length - 1,
                  !.s.buffer = realloc(x.s.buffer, x.s.max_line_length),
                  !.s.line = ToBuffer,
                  !.ret = TRUE]
    ELSE [tinyrl_ding(x) EXCEPT !.ret = FALSE]

\* the insertion without the move of the tail: the text overwrites it
InsertCells_Overwrite(buffer, point, end, text, delta) ==
    Store(Store(buffer, end + delta, <<NUL>>), point,
          strncpy_bytes(text, delta))

InsertCells(buffer, point, end, text, delta) ==
    LET moved == IF point < end
                 THEN memmove(buffer, point + delta, point, (end - point) + 1)
                 ELSE Store(buffer, end + delta, <<NUL>>)
    IN Store(moved, point, strncpy_bytes(text, delta))

tinyrl_insert_text_len(x0, text, delta) ==
    LET x1 == changed_line(x0)
        x == IF ~x1.ub /\ (delta + x1.s.end) > x1.s.buffer_size
             THEN tinyrl_extend_line_buffer(x1, x1.s.end + delta)
             ELSE [x1 EXCEPT !.ret = TRUE]
    IN IF x.ub \/ ~x.ret THEN x
       ELSE IF x.s.end + delta + 1 > Len(x.s.buffer) THEN Undefined(x)
       ELSE [x EXCEPT !.s.buffer = InsertCells(x.s.buffer, x.s.point,
                                               x.s.end, text, delta),
                      !.s.point = @ + delta,
                      !.s.end = @ + delta,
                      !.ret = TRUE]

tinyrl_insert_text(x, text) == tinyrl_insert_text_len(x, text, Len(text))

\* the cursor adjustment without the snap of a cursor inside the interval
DeletePoint_NoSnap(point, start, end) ==
    IF point > end THEN point - (end - start) ELSE point

\* the cursor after [start, end) is deleted
DeletePoint(point, start, end) ==
    IF point > end THEN point - (end - start)
    ELSE IF point > start THEN start
    ELSE point

\* the move of the tail without its terminator
DeleteCells_NoTerminator(buffer, this_end, start, end) ==
    memmove(buffer, start, start + (end - start), this_end - end)

DeleteCells(buffer, this_end, start, end) ==
    memmove(buffer, start, start + (end - start), this_end + 1 - end)

tinyrl_delete_text(x0, start, end) ==
    IF x0.ub \/ end = start THEN x0
    ELSE LET x == changed_line(x0) IN
         IF x.ub THEN x
         ELSE IF end < start \/ x.s.end < end \/ x.s.end + 1 > Len(x.s.buffer)
              THEN Undefined(x)
         ELSE [x EXCEPT !.s.buffer = DeleteCells(x.s.buffer, x.s.end, start, end),
                        !.s.end = @ - (end - start),
                        !.s.point = DeletePoint(@, start, end)]

-----------------------------------------------------------------------------
(* Built-in key handlers *)

\* the cells [0, end) of the line can be read: they lie inside the object
\* this->line points to and hold determinate bytes
LineReadable(s) ==
    /\ s.line.ref # "null"
    /\ s.end <= Len(LineObj(s))
    /\ \A i \in 0..(s.end - 1) : At(LineObj(s), i) # Indeterminate

tinyrl_key_default(x, key) == tinyrl_insert_text(x, key)

tinyrl_key_interrupt(x, key) ==
    LET y == tinyrl_delete_text(x, 0, x.s.end)
    IN [y EXCEPT !.s.done = TRUE, !.ret = TRUE]

tinyrl_key_start_of_line(x, key) == [x EXCEPT !.s.point = 0, !.ret = TRUE]

tinyrl_key_end_of_line(x, key) == [x EXCEPT !.s.point = x.s.end, !.ret = TRUE]

tinyrl_key_kill(x, key) ==
    IF ScanLen(x.s.buffer, x.s.point) < 0 THEN Undefined(x)
    ELSE LET y == [x EXCEPT !.s.kill_string =
                       Bytes(strdup_at(x.s.buffer, x.s.point))]
         IN [tinyrl_delete_text(y, y.s.point, y.s.end) EXCEPT !.ret = TRUE]

tinyrl_key_yank(x, key) ==
    IF x.s.kill_string # NullStr
    THEN tinyrl_insert_text(x, x.s.kill_string)
    ELSE [x EXCEPT !.ret = FALSE]

tinyrl_key_crlf(x, key) ==
    [tinyrl_crlf(x) EXCEPT !.s.done = TRUE, !.ret = TRUE]

\* LEFT that reports success at the start of the line
tinyrl_key_left_Quiet(x, key) ==
    IF x.s.point > 0 THEN
        IF ~LineReadable(x.s) THEN Undefined(x)
        ELSE [x EXCEPT !.s.point = utf8_grapheme_prev(LineObj(x.s), x.s.end, @),
                       !.ret = TRUE]
    ELSE [x EXCEPT !.ret = TRUE]

tinyrl_key_left(x, key) ==
    IF x.s.point > 0 THEN
        IF ~LineReadable(x.s) THEN Undefined(x)
        ELSE [x EXCEPT !.s.point = utf8_grapheme_prev(LineObj(x.s), x.s.end, @),
                       !.ret = TRUE]
    ELSE [x EXCEPT !.ret = FALSE]

tinyrl_key_right(x, key) ==
    IF x.s.point < x.s.end THEN
        IF ~LineReadable(x.s) THEN Undefined(x)
        ELSE [x EXCEPT !.s.point = utf8_grapheme_next(LineObj(x.s), x.s.end, @),
                       !.ret = TRUE]
    ELSE [x EXCEPT !.ret = FALSE]

\* backspace without the test of the cursor against the start of the line
tinyrl_key_backspace_NoGuard(x, key) ==
    IF ~LineReadable(x.s) THEN Undefined(x)
    ELSE LET end == x.s.point
             y == [x EXCEPT !.s.point =
                      utf8_char_prev(LineObj(x.s), x.s.end, x.s.point)]
         IN [tinyrl_delete_text(y, y.s.point, end) EXCEPT !.ret = TRUE]

tinyrl_key_backspace(x, key) ==
    IF x.s.point # 0 THEN
        IF ~LineReadable(x.s) THEN Undefined(x)
        ELSE LET end == x.s.point
                 y == [x EXCEPT !.s.point =
                          utf8_char_prev(LineObj(x.s), x.s.end, x.s.point)]
             IN [tinyrl_delete_text(y, y.s.point, end) EXCEPT !.ret = TRUE]
    ELSE [x EXCEPT !.ret = FALSE]

tinyrl_key_delete(x, key) ==
    IF x.s.point < x.s.end THEN
        IF ~LineReadable(x.s) THEN Undefined(x)
        ELSE LET end == utf8_grapheme_next(LineObj(x.s), x.s.end, x.s.point)
             IN [tinyrl_delete_text(x, x.s.point, end) EXCEPT !.ret = TRUE]
    ELSE [x EXCEPT !.ret = FALSE]

tinyrl_key_erase_line(x, key) ==
    LET y == tinyrl_delete_text(x, 0, x.s.point)
    IN [y EXCEPT !.s.point = 0, !.ret = TRUE]

-----------------------------------------------------------------------------
(* The keymap trie.  A node is named by the byte sequence that leads to    *)
(* it (<<>> is the root); handler maps every sequence with a non-NULL      *)
(* handler to the handler's name, node holds the sequences with a child    *)
(* keymap.                                                                 *)

tinyrl_keymap_new == [handler |-> <<>>, node |-> {}]

\* the nonempty proper prefixes of seq
ProperPrefixes(seq) == {SubSeq(seq, 1, k) : k \in 1..(Len(seq) - 1)}

\* handler = "NULL" binds nothing to seq and still makes the nodes on its way
tinyrl_bind_keyseq(keymap, seq, handler) ==
    IF seq = <<>> THEN keymap
    ELSE [handler |->
              [p \in (IF handler = "NULL"
                      THEN DOMAIN keymap.handler \ {seq}
                      ELSE DOMAIN keymap.handler \cup {seq}) |->
                   IF p = seq THEN handler ELSE keymap.handler[p]],
          node |-> keymap.node \cup ProperPrefixes(seq)]

tinyrl_bind_key(keymap, key, handler) ==
    [keymap EXCEPT !.handler =
        [p \in (IF handler = "NULL" THEN DOMAIN @ \ {<<key>>}
                ELSE DOMAIN @ \cup {<<key>>}) |->
             IF p = <<key>> THEN handler ELSE @[p]]]

SpecialSeq(key) ==
    CASE key = "UP" -> <<ESCAPE, 91, 65>>
      [] key = "DOWN" -> <<ESCAPE, 91, 66>>
      [] key = "LEFT" -> <<ESCAPE, 91, 68>>
      [] key = "RIGHT" -> <<ESCAPE, 91, 67>>
      [] key = "HOME" -> <<ESCAPE, 79, 72>>
      [] key = "END" -> <<ESCAPE, 79, 70>>
      [] key = "INSERT" -> <<ESCAPE, 91, 50, 126>>
      [] key = "DELETE" -> <<ESCAPE, 91, 51, 126>>

tinyrl_bind_special(keymap, key, handler) ==
    tinyrl_bind_keyseq(keymap, SpecialSeq(key), handler)

RECURSIVE BindAll(_, _)
\* the binding calls of a list, in order: <<"key", byte, handler>> is a
\* call of tinyrl_bind_key, <<"special", name, handler>> of
\* tinyrl_bind_special
BindAll(keymap, binds) ==
    IF binds = <<>> THEN keymap
    ELSE LET b == binds[1] IN
         BindAll(IF b[1] = "key" THEN tinyrl_bind_key(keymap, b[2], b[3])
                 ELSE tinyrl_bind_special(keymap, b[2], b[3]),
                 Tail(binds))

\* the keymap tinyrl_init builds
InitKeymap ==
    LET printable == [tinyrl_keymap_new EXCEPT
                         !.handler = [p \in {<<i>> : i \in 32..255} |-> "key_default"]]
    IN BindAll(printable,
        << <<"key", CR, "key_crlf">>,
           <<"key", LF, "key_crlf">>,
           <<"key", CTRL(67), "key_interrupt">>,
           <<"key", BACKSPACE, "key_backspace">>,
           <<"key", CTRL(72), "key_backspace">>,
           <<"key", CTRL(68), "key_delete">>,
           <<"key", CTRL(76), "key_clear_screen">>,
           <<"key", CTRL(85), "key_erase_line">>,
           <<"key", CTRL(65), "key_start_of_line">>,
           <<"key", CTRL(69), "key_end_of_line">>,
           <<"key", CTRL(75), "key_kill">>,
           <<"key", CTRL(89), "key_yank">>,
           <<"special", "RIGHT", "key_right">>,
           <<"special", "LEFT", "key_left">>,
           <<"special", "HOME", "key_start_of_line">>,
           <<"special", "END", "key_end_of_line">>,
           <<"special", "INSERT", "NULL">>,
           <<"special", "DELETE", "key_delete">> >>)

\* this->keymap: the keymap of tinyrl_init with the bindings the
\* application has made since (s.keymap lists them) applied in order
KeymapOf(s) == BindAll(InitKeymap, s.keymap)

-----------------------------------------------------------------------------
(* Reading keys *)

\* tinyrl_getchar on the bytes in: len is the key length or -1, key the
\* bytes of the key, rest what is left on the stream
tinyrl_getchar(in) ==
    IF in = <<>> THEN [len |-> -1, key |-> <<>>, rest |-> in]
    ELSE LET key_len == utf8_char_len(in[1]) IN
         IF key_len = 0 THEN [len |-> -1, key |-> <<>>, rest |-> Tail(in)]
         ELSE IF Len(in) < key_len
              THEN [len |-> -1, key |-> <<>>, rest |-> <<>>]
         ELSE LET key == SubSeq(in, 1, key_len)
                  rest == SubSeq(in, key_len + 1, Len(in))
              IN IF utf8_char_decode(key, key_len) # key_len
                 THEN [len |-> -1, key |-> key, rest |-> rest]
                 ELSE [len |-> key_len, key |-> key, rest |-> rest]

\* a non-blocking read that never finds a byte waiting
tinyrl_getchar_nonblock_Empty(in) == [len |-> -1, key |-> <<>>, rest |-> in]

\* the read with O_NONBLOCK set: only the bytes already waiting are seen
tinyrl_getchar_nonblock(in) == tinyrl_getchar(in)

\* the walk that stops at the first byte of the key
WalkKeymap_First(keymap, node, key, i, in, best) ==
    IF <<key[1]>> \in DOMAIN keymap.handler
    THEN [handler |-> keymap.handler[<<key[1]>>], matched |-> 1,
          key |-> key, rest |-> in, steps |-> 1]
    ELSE [handler |-> best.handler, matched |-> best.matched,
          key |-> key, rest |-> in, steps |-> 1]

RECURSIVE WalkKeymap(_, _, _, _, _, _)
\* the loop of tinyrl_handle_key: node is the keymap reached, key[i] the
\* byte looked at, best the best handler so far with the length of the
\* sequence it is bound to (matched).  A non-blocking read that fails
\* before it stores a byte leaves key as it was.  steps is the number of
\* passes of the loop.
WalkKeymap(keymap, node, key, i, in, best) ==
    LET seq == Append(node, key[i + 1])
        found == IF seq \in DOMAIN keymap.handler
                 THEN [handler |-> keymap.handler[seq], matched |-> Len(seq)]
                 ELSE best
        stop(k, rest) == [handler |-> found.handler, matched |-> found.matched,
                          key |-> k, rest |-> rest, steps |-> Len(seq)]
    IN IF seq \notin keymap.node THEN stop(key, in)
       ELSE IF i + 1 < Len(key)
            THEN WalkKeymap(keymap, seq, key, i + 1, in, found)
       ELSE LET g == tinyrl_getchar_nonblock(in) IN
            IF g.len <= 0 THEN stop(IF g.key = <<>> THEN key ELSE g.key, g.rest)
            ELSE WalkKeymap(keymap, seq, g.key, 0, g.rest, found)

-----------------------------------------------------------------------------
(* Redisplay *)

RECURSIVE Dec(_)
\* the decimal digits printf's %d writes for n >= 0
Dec(n) == IF n < 10 THEN <<48 + n>> ELSE Dec(n \div 10) \o <<48 + (n % 10)>>

ESC_(tail) == <<ESCAPE, 91>> \o tail

tinyrl_vt100_clear_screen(x) == tinyrl_printf(x, ESC_(<<50, 74>>))
tinyrl_vt100_erase_line_end(x) == tinyrl_printf(x, ESC_(<<48, 75>>))
tinyrl_vt100_erase_line(x) == tinyrl_printf(x, ESC_(<<50, 75>>))
tinyrl_vt100_cursor_up(x, count) == tinyrl_printf(x, ESC_(Dec(count) \o <<65>>))
tinyrl_vt100_cursor_down(x, count) == tinyrl_printf(x, ESC_(Dec(count) \o <<66>>))
tinyrl_vt100_cursor_forward(x, count) == tinyrl_printf(x, ESC_(Dec(count) \o <<67>>))
tinyrl_vt100_cursor_home(x) == tinyrl_printf(x, ESC_(<<72>>))

\* the width the terminal-size query gives; ws_col = 0 stands for a query
\* that fails or reports no columns
tinyrl__get_width(cols) == IF cols # 0 THEN cols ELSE DefaultWidth

RECURSIVE WrapFrom(_, _, _, _, _, _)
WrapFrom(s, len, row_width, point, row, col) ==
    IF point >= len THEN [row |-> row, col |-> col]
    ELSE LET width == utf8_grapheme_width(s, len, point)
             next == utf8_grapheme_next(s, len, point)
         IN IF col + width > row_width
            THEN WrapFrom(s, len, row_width, next, row + 1, width)
            ELSE WrapFrom(s, len, row_width, next, row, col + width)

\* the row and column after the first len bytes of s, from (row, col)
tinyrl_string_wrap(s, len, row_width, row, col) ==
    WrapFrom(s, len, row_width, 0, row, col)

RECURSIVE CountGraphemes(_, _, _, _, _)
\* the loop of tinyrl_internal_print for a substituted echo character
CountGraphemes(line, this_end, this_point, i, acc) ==
    LET point == IF i = this_point THEN acc.end ELSE acc.point IN
    IF i >= this_end THEN [point |-> point, end |-> acc.end]
    ELSE CountGraphemes(line, this_end, this_point,
                        utf8_grapheme_next(line, this_end, i),
                        [point |-> point, end |-> acc.end + 1])

\* what is displayed: the buffer with its length and the cursor in it;
\* ok is FALSE when producing it reads outside the line
tinyrl_internal_print(s) ==
    IF s.echo_enabled THEN
        [ok |-> s.line.ref # "null" /\ strlen(LineObj(s)) >= s.end,
         point |-> s.point, end |-> s.end,
         buffer |-> IF s.line.ref # "null" /\ strlen(LineObj(s)) >= 0
                    THEN strdup_at(LineObj(s), 0) ELSE <<NUL>>]
    ELSE IF s.echo_char # NUL THEN
        IF ~LineReadable(s)
        THEN [ok |-> FALSE, point |-> 0, end |-> 0, buffer |-> <<NUL>>]
        ELSE LET c == CountGraphemes(LineObj(s), s.end, s.point, 0,
                                     [point |-> 0, end |-> 0])
             IN [ok |-> TRUE, point |-> c.point, end |-> c.end,
                 buffer |-> [i \in 1..c.end |-> s.echo_char] \o <<NUL>>]
    ELSE [ok |-> TRUE, point |-> 0, end |-> 0, buffer |-> <<NUL>>]

\* a comparison that keeps nothing of the previous display
KeepLen_None(buffer, end, last_buffer, last_end, keep_len) == keep_len

RECURSIVE KeepLen(_, _, _, _, _)
\* how much of the previous display is kept
KeepLen(buffer, end, last_buffer, last_end, keep_len) ==
    IF keep_len >= end THEN keep_len
    ELSE LET next_len == utf8_grapheme_next(buffer, end, keep_len) IN
         IF next_len > last_end THEN keep_len
         ELSE IF Cells(buffer, keep_len, next_len)
                 # Cells(last_buffer, keep_len, next_len) THEN keep_len
         ELSE KeepLen(buffer, end, last_buffer, last_end, next_len)

\* where the first keep_len bytes of the display end
KeepAt(d, width, prompt_at, keep_len) ==
    [keep_len |-> keep_len,
     at |-> tinyrl_string_wrap(d.buffer, keep_len, width,
                               prompt_at.row, prompt_at.col)]

\* never keep an empty last row: step back by a grapheme
KeepBack(d, width, prompt_at, k) ==
    IF k.keep_len > 0 /\ k.at.col = width
    THEN KeepAt(d, width, prompt_at,
                utf8_grapheme_prev(d.buffer, d.end, k.keep_len))
    ELSE k

\* how much of the previous display is kept, and the row and column
\* where that ends
Keep(d, s, width, prompt_at) ==
    KeepBack(d, width, prompt_at,
             KeepAt(d, width, prompt_at,
                    KeepLen(d.buffer, d.end, s.last_buffer, s.last_end, 0)))

\* move the cursor to the start of the last displayed row
ToLastRow(x) ==
    IF x.s.last_row > x.s.last_point_row
    THEN tinyrl_vt100_cursor_down(x, x.s.last_row - x.s.last_point_row)
    ELSE IF x.s.last_row < x.s.last_point_row
    THEN tinyrl_vt100_cursor_up(x, x.s.last_point_row - x.s.last_row)
    ELSE x

RECURSIVE EraseRows(_, _)
\* erase the rows that are not kept, the cursor moving up
EraseRows(x, rows) ==
    IF rows = 0 THEN x
    ELSE EraseRows(tinyrl_vt100_cursor_up(tinyrl_vt100_erase_line(x), 1),
                   rows - 1)

ToCol(x, col) == IF col # 0 THEN tinyrl_vt100_cursor_forward(x, col) ELSE x

\* the first part of tinyrl_redisplay: erase the changed portion of the
\* previous line, k telling what is kept, or print the prompt
RedisplayErase(x, k) ==
    IF x.s.last_buffer # NullStr
    THEN [x |-> tinyrl_vt100_erase_line_end(
                    ToCol(EraseRows(ToLastRow(tinyrl_printf(x, <<CR>>)),
                                    IF x.s.last_row > k.at.row
                                    THEN x.s.last_row - k.at.row ELSE 0),
                          k.at.col)),
          keep_len |-> k.keep_len]
    ELSE [x |-> tinyrl_printf(x, x.s.prompt), keep_len |-> 0]

\* the row and column of the cursor, pt0 being where the bytes before
\* point end
PointAt(d, width, pt0) ==
    IF pt0.col = width
       \/ (d.point < d.end
           /\ pt0.col + utf8_grapheme_width(d.buffer, d.end, d.point) > width)
    THEN [row |-> pt0.row + 1, col |-> 0]
    ELSE pt0

\* move the cursor from the end of the text, at, to point, pt
ToNextRow(x, at, pt) ==
    IF at.row < pt.row THEN tinyrl_printf(x, <<LF>>) ELSE x

UpToPoint(x, d, at, pt) ==
    IF d.end > d.point /\ at.row > pt.row
    THEN tinyrl_vt100_cursor_up(x, at.row - pt.row) ELSE x

BackToPoint(x, d, pt) ==
    IF d.end > d.point THEN ToCol(tinyrl_printf(x, <<CR>>), pt.col) ELSE x

\* store the snapshot of what is displayed
StoreSnapshot(x, d, at, pt) ==
    [x EXCEPT !.s.last_buffer = d.buffer,
              !.s.last_end = d.end,
              !.s.last_row = at.row,
              !.s.last_point_row = pt.row]

\* the second part of tinyrl_redisplay: print from keep_len, move the
\* cursor to point, store the snapshot
RedisplayDraw(e, d, at, pt) ==
    StoreSnapshot(
        BackToPoint(
            UpToPoint(
                ToNextRow(
                    tinyrl_printf(e.x, Cells(d.buffer, e.keep_len,
                                             strlen(d.buffer))),
                    at, pt),
                d, at, pt),
            d, pt),
        d, at, pt)

\* tinyrl_redisplay of the display d
RedisplayOf(x, d, width, prompt_at) ==
    IF ~d.ok THEN Undefined(x)
    ELSE RedisplayDraw(
             RedisplayErase(x, Keep(d, x.s, width, prompt_at)),
             d,
             tinyrl_string_wrap(d.buffer, d.end, width,
                                prompt_at.row, prompt_at.col),
             PointAt(d, width,
                     tinyrl_string_wrap(d.buffer, d.point, width,
                                        prompt_at.row, prompt_at.col)))

\* tinyrl_redisplay on a terminal of the given width
RedisplayAt(x, width) ==
    RedisplayOf(x, tinyrl_internal_print(x.s), width,
                tinyrl_string_wrap(Obj(x.s.prompt), Len(x.s.prompt),
                                   width, 0, 0))

tinyrl_redisplay(x, cols) ==
    IF x.ub THEN x ELSE RedisplayAt(x, tinyrl__get_width(cols))

tinyrl_reset_line_state(x, cols) ==
    tinyrl_redisplay([x EXCEPT !.s.last_buffer = NullStr], cols)

tinyrl_key_clear_screen(x, key, cols) ==
    [tinyrl_reset_line_state(
         tinyrl_vt100_cursor_home(tinyrl_vt100_clear_screen(x)), cols)
     EXCEPT !.ret = TRUE]

-----------------------------------------------------------------------------
(* Dispatch and the read loop *)

\* the call handler(context, key); "app" is a handler of the application
\* that succeeds and leaves the session alone
CallHandler(handler, x, key, cols) ==
    CASE handler = "key_default" -> tinyrl_key_default(x, key)
      [] handler = "key_interrupt" -> tinyrl_key_interrupt(x, key)
      [] handler = "key_start_of_line" -> tinyrl_key_start_of_line(x, key)
      [] handler = "key_end_of_line" -> tinyrl_key_end_of_line(x, key)
      [] handler = "key_kill" -> tinyrl_key_kill(x, key)
      [] handler = "key_yank" -> tinyrl_key_yank(x, key)
      [] handler = "key_crlf" -> tinyrl_key_crlf(x, key)
      [] handler = "key_left" -> tinyrl_key_left(x, key)
      [] handler = "key_right" -> tinyrl_key_right(x, key)
      [] handler = "key_backspace" -> tinyrl_key_backspace(x, key)
      [] handler = "key_delete" -> tinyrl_key_delete(x, key)
      [] handler = "key_clear_screen" -> tinyrl_key_clear_screen(x, key, cols)
      [] handler = "key_erase_line" -> tinyrl_key_erase_line(x, key)
      [] handler = "app" -> [x EXCEPT !.ret = TRUE]

\* the bell of tinyrl_handle_key after a handler that failed
RingOnFailure(h) == IF ~h.ub /\ ~h.ret THEN tinyrl_ding(h) ELSE h

\* the call of the handler that the walk w has found
Dispatch(x, w, cols) ==
    [x |-> RingOnFailure(IF w.handler = "NULL" THEN [x EXCEPT !.ret = FALSE]
                         ELSE CallHandler(w.handler, x, w.key, cols)),
     rest |-> w.rest, handler |-> w.handler, matched |-> w.matched]

\* tinyrl_handle_key: x after the call, the input left, and what was found
tinyrl_handle_key(x, key, in, cols) ==
    Dispatch(x, WalkKeymap(KeymapOf(x.s), <<>>, key, 0, in,
                           [handler |-> "NULL", matched |-> 0]), cols)

RECURSIVE StripOnDone_All(_)
\* the strip that takes all the whitespace at the end of the line
StripOnDone_All(x) ==
    IF x.ub \/ ~x.s.done \/ x.s.end = 0 THEN x
    ELSE IF x.s.line.ref = "null" \/ x.s.end > Len(LineObj(x.s))
            \/ At(LineObj(x.s), x.s.end - 1) = Indeterminate THEN Undefined(x)
    ELSE IF isspace(At(LineObj(x.s), x.s.end - 1))
         THEN StripOnDone_All(tinyrl_delete_text(x, x.s.end - 1, x.s.end))
    ELSE x

\* the strip of tinyrl_readtty once a handler has set done
StripOnDone(x) ==
    IF x.ub \/ ~x.s.done \/ x.s.end = 0 THEN x
    ELSE IF x.s.line.ref = "null" \/ x.s.end > Len(LineObj(x.s))
            \/ At(LineObj(x.s), x.s.end - 1) = Indeterminate THEN Undefined(x)
    ELSE IF isspace(At(LineObj(x.s), x.s.end - 1))
         THEN tinyrl_delete_text(x, x.s.end - 1, x.s.end)
    ELSE x

\* the value tinyrl_readline returns, NullStr for NULL
ReadlineResult(s) ==
    IF s.line.ref = "null" THEN NullStr ELSE Bytes(LineObj(s))

\* the end of tinyrl_readline, after the loop
ReadlineLeave(x) ==
    IF x.ub THEN x
    ELSE IF x.s.line.ref # "null" /\ strlen(LineObj(x.s)) < 0 THEN Undefined(x)
    ELSE LET r == ReadlineResult(x.s)
             y == [x EXCEPT !.s.buffer = <<>>, !.result = r]
         IN IF r = NullStr \/ r = <<>> THEN tinyrl_crlf(y) ELSE y

\* the loop that reads the next key without a redisplay
LoopAround_NoRedisplay(x, cols) ==
    IF x.ub THEN x
    ELSE IF x.s.done THEN ReadlineLeave(x)
    ELSE x

\* the loop of tinyrl_readtty from the return of a handler to the next
\* blocking read: the loop ends when done is set, and is redisplayed if not
LoopAround(x, cols) ==
    IF x.ub THEN x
    ELSE IF x.s.done THEN ReadlineLeave(x)
    ELSE tinyrl_redisplay(x, cols)

\* the strip that follows the handler, k being what tinyrl_handle_key gave
AfterKey(k) ==
    [x |-> StripOnDone(k.x), rest |-> k.rest, handler |-> k.handler,
     matched |-> k.matched, ret |-> k.x.ret]

\* the loop that ends on a failed read with the line as it is
KeyRead_KeepLine(s, g, cols) ==
    IF g.len > 0
    THEN AfterKey(tinyrl_handle_key(Enter(s), g.key, g.rest, cols))
    ELSE [x |-> [Enter(s) EXCEPT !.s.done = TRUE],
          rest |-> g.rest, handler |-> "NULL", matched |-> 0, ret |-> FALSE]

\* the loop of tinyrl_readtty after its blocking read g
KeyRead(s, g, cols) ==
    IF g.len > 0
    THEN AfterKey(tinyrl_handle_key(Enter(s), g.key, g.rest, cols))
    ELSE [x |-> [Enter(s) EXCEPT !.s.done = TRUE, !.s.line = ToNull],
          rest |-> g.rest, handler |-> "NULL", matched |-> 0, ret |-> FALSE]

\* the loop of tinyrl_readtty from its blocking read, with the bytes in on
\* the stream, to the call of the handler and the strip that follows it
KeyPass(s, in, cols) == KeyRead(s, tinyrl_getchar(in), cols)

\* the start of tinyrl_readline on a terminal, up to the first blocking
\* read of tinyrl_readtty
ReadlineEnter(s, prompt, cols) ==
    tinyrl_redisplay(
        tinyrl_reset_line_state(
            Enter([s EXCEPT !.done = FALSE, !.point = 0, !.end = 0,
                            !.buffer = Obj(<<>>), !.buffer_size = 0,
                            !.line = ToBuffer, !.prompt = prompt]), cols),
        cols)

-----------------------------------------------------------------------------
(* Inputs *)

\* what the application inserts
Texts == {<<97>>, <<195, 169>>}

\* strings the application passes to insert_text_len and replace_line
AppTexts == {<<>>, <<97>>, <<195, 169, 97>>}

\* the caller's strings set_line installs; NullStr is set_line(NULL)
SetTexts == {<<195, 169>>, NullStr}

Prompts == {<<62>>}

\* the keys typed at the terminal, each arriving as one burst of bytes
Keys ==
    {<<97>>, <<195, 169>>, <<CR>>, <<CTRL(67)>>, <<BACKSPACE>>, <<CTRL(68)>>,
     <<CTRL(76)>>, <<CTRL(85)>>, <<CTRL(65)>>, <<CTRL(69)>>,
     SpecialSeq("LEFT"), SpecialSeq("RIGHT"), SpecialSeq("UP")}

Limits == {2}

WsCols == {0}

-----------------------------------------------------------------------------
(* The state machine.  Between steps a session inside tinyrl_readline      *)
(* waits in the blocking read of tinyrl_readtty.  A step is a key read     *)
(* from the terminal and handled, or a handler of the application that     *)
(* makes one call of the interface, and runs to the next blocking read or  *)
(* to the return of tinyrl_readline.                                       *)

tinyrl_init ==
    [line |-> ToNull, max_line_length |-> 0, prompt |-> NullStr,
     buffer |-> <<>>, buffer_size |-> 0, done |-> FALSE, point |-> 0,
     end |-> 0, kill_string |-> NullStr, keymap |-> <<>>,
     echo_char |-> NUL, echo_enabled |-> TRUE, isatty |-> TRUE,
     last_buffer |-> NullStr, last_end |-> 0, last_row |-> 0,
     last_point_row |-> 0]

\* the attributes of a terminal in its line mode, and in a mode an
\* application has set before
Cooked ==
    [c_iflag |-> {"ICRNL", "IXON"}, c_oflag |-> {"OPOST", "ONLCR"},
     c_lflag |-> {"ISIG", "ICANON", "ECHO"}, VMIN |-> 1, VTIME |-> 0]
NoEcho == [Cooked EXCEPT !.c_lflag = {"ISIG", "ICANON"}]
TtyModes == {Cooked, NoEcho}

Op(name, ret) == [op |-> name, ret |-> ret]

Init ==
    /\ this = tinyrl_init
    /\ pc = "idle"
    /\ istream = <<>>
    /\ result = NullStr
    /\ ub = FALSE
    /\ ws_col \in WsCols
    /\ foreign = FALSE
    /\ lastop = Op("new", TRUE)
    /\ transcript = <<>>
    /\ input0 = <<>>
    /\ termios = [tty |-> Cooked, saved |-> {}]

Editing == pc = "editing"

\* tty_set_raw_mode: status is what the first tcgetattr returned
tty_set_raw_mode(t, status) ==
    IF status # -1
    THEN [tty |-> [t.tty EXCEPT !.c_iflag = {},
                                !.c_oflag = {"OPOST", "ONLCR"},
                                !.c_lflag = {}, !.VMIN = 1, !.VTIME = 0],
          saved |-> {t.tty}]
    ELSE t

\* the return that leaves the terminal as it is
tty_restore_mode_Skip(t) == t

\* tty_restore_mode: tcsetattr with what default_termios holds
tty_restore_mode(t) ==
    IF t.saved = {} THEN t
    ELSE [t EXCEPT !.tty = CHOOSE a \in t.saved : TRUE]

\* tcgetattr on the input stream: it succeeds on a terminal
tcgetattr(s) == IF s.isatty THEN 0 ELSE -1

\* the next state when the execution of a step ends as x
Stepped(x) ==
    /\ ub' = x.ub
    /\ pc' = IF x.ub THEN "undefined"
             ELSE IF x.s.done THEN "idle" ELSE "editing"
    /\ this' = IF x.ub THEN this ELSE x.s
    /\ result' = IF ~x.ub /\ x.s.done THEN x.result ELSE result
    /\ termios' = IF ~x.ub /\ x.s.done THEN tty_restore_mode(termios)
                  ELSE termios

tinyrl_limit_line_length(s, length) == [s EXCEPT !.max_line_length = length]

LimitLineLength(length) ==
    /\ pc = "idle"
    /\ lastop.op = "new"
    /\ this' = tinyrl_limit_line_length(this, length)
    /\ lastop' = Op("limit_line_length", TRUE)
    /\ UNCHANGED <<pc, istream, result, ub, ws_col, foreign, transcript, input0,
                   termios>>

Readline(prompt) ==
    /\ pc = "idle"
    /\ this.isatty
    /\ LET x == ReadlineEnter(this, prompt, ws_col) IN
       /\ this' = x.s
       /\ ub' = x.ub
    /\ pc' = "editing"
    /\ result' = NullStr
    /\ foreign' = FALSE
    /\ lastop' = Op("readline", TRUE)
    /\ termios' = tty_set_raw_mode(termios, tcgetattr(this))
    /\ UNCHANGED <<istream, ws_col, transcript, input0>>

InsertText(text) ==
    /\ Editing
    /\ LET x == tinyrl_insert_text(Enter(this), text) IN
       /\ x.s.end <= MaxEnd
       /\ Stepped(LoopAround(x, ws_col))
       /\ lastop' = Op("insert_text", x.ret)
    /\ UNCHANGED <<istream, ws_col, foreign, transcript, input0>>

InsertTextLen(text, delta) ==
    /\ Editing
    /\ LET x == tinyrl_insert_text_len(Enter(this), text, delta) IN
       /\ x.s.end <= MaxEnd
       /\ Stepped(LoopAround(x, ws_col))
       /\ lastop' = Op("insert_text_len", x.ret)
    /\ UNCHANGED <<istream, ws_col, foreign, transcript, input0>>

DeleteText(start, end) ==
    /\ Editing
    /\ Stepped(LoopAround(tinyrl_delete_text(Enter(this), start, end), ws_col))
    /\ lastop' = Op("delete_text", TRUE)
    /\ UNCHANGED <<istream, ws_col, foreign, transcript, input0>>

\* text = NullStr is the call tinyrl_set_line(this, NULL)
tinyrl_set_line(x, text) ==
    IF text = NullStr /\ strlen(x.s.buffer) < 0 THEN Undefined(x)
    ELSE LET len == IF text = NullStr THEN strlen(x.s.buffer) ELSE Len(text)
         IN [x EXCEPT !.s.line = IF text = NullStr THEN ToBuffer
                                 ELSE ToText(text),
                      !.s.point = len, !.s.end = len]

SetLine(text) ==
    /\ Editing
    /\ Stepped(LoopAround(tinyrl_set_line(Enter(this), text), ws_col))
    /\ foreign' = (foreign \/ text # NullStr)
    /\ lastop' = Op("set_line", TRUE)
    /\ UNCHANGED <<istream, ws_col, transcript, input0>>

tinyrl_replace_line(x0, text, cols) ==
    LET new_len == Len(text)
        x == tinyrl_extend_line_buffer(x0, new_len)
        y == IF x.ret
             THEN [x EXCEPT !.s.buffer = Store(@, 0, Obj(text)),
                            !.s.point = new_len, !.s.end = new_len]
             ELSE x
    IN [tinyrl_redisplay(y, cols) EXCEPT !.ret = x.ret]

ReplaceLine(text) ==
    /\ Editing
    /\ LET x == tinyrl_replace_line(Enter(this), text, ws_col) IN
       /\ Stepped(LoopAround(x, ws_col))
       /\ lastop' = Op("replace_line", x.ret)
    /\ UNCHANGED <<istream, ws_col, foreign, transcript, input0>>

\* a handler of the application calls tinyrl_redisplay
Redisplay ==
    /\ Editing
    /\ Stepped(LoopAround(tinyrl_redisplay(Enter(this), ws_col), ws_col))
    /\ lastop' = Op("redisplay", TRUE)
    /\ UNCHANGED <<istream, ws_col, foreign, transcript, input0>>

\* a key arrives at the terminal, is read and handled
Key(burst) ==
    /\ Editing
    /\ istream = <<>>
    /\ LET k == KeyPass(this, burst, ws_col) IN
       /\ k.x.s.end <= MaxEnd
       /\ Stepped(LoopAround(k.x, ws_col))
       /\ istream' = k.rest
       /\ lastop' = Op("key", k.ret)
    /\ UNCHANGED <<ws_col, foreign, transcript, input0>>

\* the input stream ends while the loop waits for a key
Eof ==
    /\ Editing
    /\ istream = <<>>
    /\ Stepped(LoopAround(KeyPass(this, <<>>, ws_col).x, ws_col))
    /\ lastop' = Op("eof", FALSE)
    /\ UNCHANGED <<istream, ws_col, foreign, transcript, input0>>

Next ==
    \/ \E n \in Limits : LimitLineLength(n)
    \/ \E p \in Prompts : Readline(p)
    \/ \E t \in Texts : InsertText(t)
    \/ \E t \in AppTexts : \E n \in 0..Len(t) : InsertTextLen(t, n)
    \/ \E a \in 0..this.end : \E b \in a..this.end : DeleteText(a, b)
    \/ \E t \in SetTexts : SetLine(t)
    \/ \E t \in AppTexts : ReplaceLine(t)
    \/ Redisplay
    \/ \E k \in Keys : Key(k)
    \/ Eof

Spec == Init /\ [][Next]_vars

-----------------------------------------------------------------------------
(* Scripted sessions: the input stream is a mock that holds all its bytes   *)
(* from the start (input0) and ends after them; transcript is the mock of   *)
(* the output stream.                                                       *)

ScriptKeys ==
    {<<97>>, <<195, 169>>, SpecialSeq("LEFT"), <<BACKSPACE>>, <<CR>>,
     <<ESCAPE>>}

RECURSIVE Streams(_)
\* the streams of at most n keys
Streams(n) ==
    IF n = 0 THEN {<<>>}
    ELSE {<<>>} \cup {k \o s : k \in ScriptKeys, s \in Streams(n - 1)}

\* a two-byte character, LEFT, BACKSPACE, CR
Utf8Scenario == <<195, 169>> \o SpecialSeq("LEFT") \o <<BACKSPACE, CR>>

\* six printable keys and CR
LimitScenario == <<97, 97, 97, 97, 97, 97, CR>>

\* a key, then bytes that are no character: a byte that is no lead byte, a
\* continuation byte in the place of a lead byte, a lead byte the stream
\* ends after, and a lead byte that no continuation byte follows
InvalidLead == <<97, 255>>
StrayContinuation == <<128>>
TruncatedChar == <<97, 195>>
BadContinuation == <<97, 195, 97>>
InvalidScenarios ==
    {InvalidLead, StrayContinuation, TruncatedChar, BadContinuation}

\* lines that end in spaces when they are committed
TrailingScenarios ==
    {<<97, 32, CR>>, <<97, 32, 32, CR>>, <<32, CR>>, <<32, 32, CR>>}

\* a key, a space and Ctrl-C
InterruptScenario == <<97, 32, CTRL(67)>>

\* 'a', 'b', LEFT, 'X', CR
EscapeScenario == <<97, 98>> \o SpecialSeq("LEFT") \o <<88, CR>>

\* the combining mark U+0301, LEFT, two keys that go before the mark, CR
MarkScenario == <<204, 129>> \o SpecialSeq("LEFT") \o <<120, 97, CR>>

Scripts ==
    Streams(MaxScript) \cup {Utf8Scenario, LimitScenario} \cup InvalidScenarios
        \cup TrailingScenarios
        \cup {InterruptScenario, MarkScenario, EscapeScenario}

\* the limit of the length-limit scenario
ScriptLimits == {5}

ScriptWsCols == {0, 2}

ScriptInit ==
    /\ this = tinyrl_init
    /\ pc = "idle"
    /\ istream = <<>>
    /\ result = NullStr
    /\ ub = FALSE
    /\ ws_col \in ScriptWsCols
    /\ foreign = FALSE
    /\ lastop = Op("new", TRUE)
    /\ transcript = <<>>
    /\ input0 \in Scripts
    /\ termios \in {[tty |-> a, saved |-> {}] : a \in TtyModes}

ScriptLimit(length) ==
    /\ pc = "idle"
    /\ lastop.op = "new"
    /\ this' = tinyrl_limit_line_length(this, length)
    /\ lastop' = Op("limit_line_length", TRUE)
    /\ UNCHANGED <<pc, istream, result, ub, ws_col, foreign, transcript, input0,
                   termios>>

\* the application binds a key to a handler of its own
ScriptBind(key) ==
    /\ pc = "idle"
    /\ lastop.op = "new"
    /\ this' = [this EXCEPT !.keymap = Append(@, <<"key", key, "app">>)]
    /\ lastop' = Op("bind_key", TRUE)
    /\ UNCHANGED <<pc, istream, result, ub, ws_col, foreign, transcript, input0,
                   termios>>

ScriptReadline(prompt) ==
    /\ pc = "idle"
    /\ this.isatty
    /\ lastop.op \in {"new", "limit_line_length", "bind_key", "disable_echo"}
    /\ LET x == ReadlineEnter(this, prompt, ws_col) IN
       /\ this' = x.s
       /\ ub' = x.ub
       /\ transcript' = x.out
    /\ pc' = "editing"
    /\ istream' = input0
    /\ result' = NullStr
    /\ lastop' = Op("readline", TRUE)
    /\ termios' = tty_set_raw_mode(termios, tcgetattr(this))
    /\ UNCHANGED <<ws_col, foreign, input0>>

\* one pass of the loop: the blocking read of the mock, the dispatch, and
\* the redisplay or the return that follows
ScriptKey ==
    /\ Editing
    /\ LET k == KeyPass(this, istream, ws_col)
           x == LoopAround(k.x, ws_col)
       IN /\ Stepped(x)
          /\ istream' = k.rest
          /\ transcript' = transcript \o x.out
          /\ lastop' = Op(IF k.matched > 0 THEN k.handler ELSE "NULL", k.ret)
    /\ UNCHANGED <<ws_col, foreign, input0>>

tinyrl_disable_echo(s, echo_char) ==
    [s EXCEPT !.echo_enabled = FALSE, !.echo_char = echo_char]

\* the echo characters: none, and '*'
EchoChars == {NUL, 42}

\* the application disables the echo before it reads a line
ScriptEcho(echo_char) ==
    /\ pc = "idle"
    /\ lastop.op = "new"
    /\ this' = tinyrl_disable_echo(this, echo_char)
    /\ lastop' = Op("disable_echo", TRUE)
    /\ UNCHANGED <<pc, istream, result, ub, ws_col, foreign, transcript, input0,
                   termios>>

ScriptNext ==
    \/ \E n \in ScriptLimits : ScriptLimit(n)
    \/ ScriptBind(ESCAPE)
    \/ \E p \in Prompts : ScriptReadline(p)
    \/ ScriptKey

Script == ScriptInit /\ [][ScriptNext]_vars

\* scripted sessions with and without echo
EchoNext ==
    \/ \E c \in EchoChars : ScriptEcho(c)
    \/ \E p \in Prompts : ScriptReadline(p)
    \/ ScriptKey

Echo == ScriptInit /\ [][EchoNext]_vars

-----------------------------------------------------------------------------
(* Sessions with the kill string: keys typed at the terminal, Ctrl-K and   *)
(* Ctrl-Y among them, and a handler of the application that installs a     *)
(* string of its own with tinyrl_set_line.                                 *)

KillKeys ==
    {<<97>>, <<195, 169>>, <<CTRL(65)>>, SpecialSeq("LEFT"), <<CTRL(75)>>,
     <<CTRL(89)>>}

KillNext ==
    \/ \E p \in Prompts : Readline(p)
    \/ \E k \in KillKeys : Key(k)
    \/ \E t \in SetTexts : SetLine(t)

Kill == Init /\ [][KillNext]_vars

-----------------------------------------------------------------------------
(* Sessions of motion and deletion keys, with the handler that was called  *)
(* on record, over lines of the buffer and lines of the application.       *)

MotionKeys ==
    {<<97>>, <<195, 169>>, SpecialSeq("LEFT"), SpecialSeq("RIGHT"),
     <<BACKSPACE>>, <<CTRL(68)>>, SpecialSeq("DELETE")}

\* a key arrives at the terminal, is read and handled
Typed(burst) ==
    /\ Editing
    /\ istream = <<>>
    /\ LET k == KeyPass(this, burst, ws_col) IN
       /\ k.x.s.end <= MaxEnd
       /\ Stepped(LoopAround(k.x, ws_col))
       /\ istream' = k.rest
       /\ lastop' = Op(k.handler, k.ret)
    /\ UNCHANGED <<ws_col, foreign, transcript, input0>>

MotionNext ==
    \/ \E p \in Prompts : Readline(p)
    \/ \E k \in MotionKeys : Typed(k)
    \/ \E t \in SetTexts : SetLine(t)

Motion == Init /\ [][MotionNext]_vars

-----------------------------------------------------------------------------
(* Non-interactive sessions: the input stream is no terminal, and          *)
(* tinyrl_readline reads a line from it in chunks with fgets.  The stream  *)
(* is a mock that holds all its bytes (input0) from the start.             *)

\* the position of the first c in bytes, 0 when there is none
First(bytes, c) ==
    IF \E i \in DOMAIN bytes : bytes[i] = c
    THEN CHOOSE i \in DOMAIN bytes :
             bytes[i] = c /\ \A j \in 1..(i - 1) : bytes[j] # c
    ELSE 0

\* fgets(buffer, size, istream) with the bytes in ahead: at most size - 1
\* bytes, up to and with the first LF; s is NullStr when fgets returns NULL,
\* eof is set when the read met the end of the stream
fgets(in, size) ==
    LET nl == First(in, LF)
        n == IF nl > 0 /\ nl <= size - 1 THEN nl
             ELSE IF Len(in) < size - 1 THEN Len(in) ELSE size - 1
    IN [s |-> IF n = 0 THEN NullStr ELSE SubSeq(in, 1, n),
        rest |-> SubSeq(in, n + 1, Len(in)),
        eof |-> n = 0 \/ (n < size - 1 /\ in[n] # LF)]

\* the chunk cut at its first CR, or else at its first LF
StripChunk(chunk) ==
    IF First(chunk, CR) > 0 THEN SubSeq(chunk, 1, First(chunk, CR) - 1)
    ELSE IF First(chunk, LF) > 0 THEN SubSeq(chunk, 1, First(chunk, LF) - 1)
    ELSE chunk

\* the string behind the whitespace at its start
SkipSpace(s) ==
    IF \A i \in DOMAIN s : isspace(s[i]) THEN <<>>
    ELSE SubSeq(s, CHOOSE i \in DOMAIN s :
                       ~isspace(s[i]) /\ \A j \in 1..(i - 1) : isspace(s[j]),
                Len(s))

\* the append of the chunk that is left after the strip
AppendChunk(x, s, cols) ==
    IF s # <<>> THEN tinyrl_redisplay(tinyrl_insert_text(x, s), cols) ELSE x

\* the body of the loop of tinyrl_readraw for the stripped chunk buffer
ReadRawChunk(x, buffer, cols) ==
    [x |-> AppendChunk(x, IF x.s.point = 0 THEN SkipSpace(buffer) ELSE buffer,
                       cols),
     len |-> Len(buffer) + 1]

\* the loop that ends after its first chunk
ReadRawNext_Once(c, g, eof, cols) ==
    [x |-> c.x, rest |-> g.rest, null |-> FALSE, eof |-> eof \/ g.eof]

RECURSIVE ReadRawLoop(_, _, _, _)
\* the loop of tinyrl_readraw once the last chunk has left c = [x, len]: g
\* is what the last fgets gave; null tells whether s is NULL after the loop
ReadRawNext(c, g, eof, cols) ==
    IF c.len = ChunkSize /\ ~c.x.ub
    THEN ReadRawLoop(c.x, g.rest, eof \/ g.eof, cols)
    ELSE [x |-> c.x, rest |-> g.rest, null |-> FALSE, eof |-> eof \/ g.eof]

\* the call of fgets in the condition of the loop, g being what it gives
ReadRawRead(x, g, eof, cols) ==
    IF g.s = NullStr
    THEN [x |-> x, rest |-> g.rest, null |-> TRUE, eof |-> TRUE]
    ELSE ReadRawNext(ReadRawChunk(x, StripChunk(g.s), cols), g, eof, cols)

ReadRawLoop(x, in, eof, cols) == ReadRawRead(x, fgets(in, ChunkSize), eof, cols)

\* the end of tinyrl_readraw, r being what the loop left
ReadRawEnd(r) ==
    IF r.x.ub THEN r.x
    ELSE IF r.null \/ (At(LineObj(r.x.s), 0) = NUL /\ r.eof)
    THEN [r.x EXCEPT !.s.line = ToNull]
    ELSE [tinyrl_crlf(r.x) EXCEPT !.s.done = TRUE]

\* tinyrl_readraw with the bytes in ahead on the stream
tinyrl_readraw(x, in, cols) ==
    ReadRawLoop([x EXCEPT !.s.last_buffer = NullStr], in, FALSE, cols)

\* what tinyrl_readraw left, with the return of tinyrl_readline
RawLeave(r) == [x |-> ReadlineLeave(ReadRawEnd(r)), rest |-> r.rest]

\* the start of tinyrl_readline: initialise for reading a line
ReadlineInit(s, prompt) ==
    [s EXCEPT !.done = FALSE, !.point = 0, !.end = 0,
              !.buffer = Obj(<<>>), !.buffer_size = 0,
              !.line = ToBuffer, !.prompt = prompt]

\* tinyrl_readline on a stream that is no terminal
RawReadlineCall(s, prompt, in, cols) ==
    RawLeave(tinyrl_readraw(Enter(ReadlineInit(s, prompt)), in, cols))

\* n bytes c
Rep(c, n) == [i \in 1..n |-> c]

\* the lengths of the lines: short ones and those around a whole number of
\* chunks
RawLengths ==
    {0, 1} \cup {k * (ChunkSize - 1) + d : k \in 1..MaxChunks, d \in {-1, 0, 1}}

\* what stands before the line, what ends it, and what follows it
RawHeads == {<<>>, <<32>>}
RawEnds == {<<>>, <<LF>>, <<CR, LF>>, <<32, LF>>}
RawTails == {<<>>, <<98, LF>>}

\* "  foo bar" and LF
FooBar == <<32, 32, 102, 111, 111, 32, 98, 97, 114, LF>>

RawInputs ==
    {h \o Rep(97, n) \o e \o t :
        h \in RawHeads, n \in RawLengths, e \in RawEnds, t \in RawTails}
    \cup {FooBar}

RawInit ==
    /\ this = [tinyrl_init EXCEPT !.isatty = FALSE]
    /\ pc = "idle"
    /\ input0 \in RawInputs
    /\ istream = input0
    /\ result = NullStr
    /\ ub = FALSE
    /\ ws_col \in WsCols
    /\ foreign = FALSE
    /\ lastop = Op("new", TRUE)
    /\ transcript = <<>>
    /\ termios = [tty |-> Cooked, saved |-> {}]

\* the application calls tinyrl_readline, as long as it has not returned
\* NULL
RawReadline(prompt) ==
    /\ pc = "idle"
    /\ ~this.isatty
    /\ lastop.op = "new" \/ result # NullStr
    /\ LET r == RawReadlineCall(this, prompt, istream, ws_col) IN
       /\ ub' = r.x.ub
       /\ pc' = IF r.x.ub THEN "undefined" ELSE "idle"
       /\ this' = IF r.x.ub THEN this ELSE r.x.s
       /\ result' = IF r.x.ub THEN result ELSE r.x.result
       /\ istream' = r.rest
       /\ transcript' = transcript \o r.x.out
    /\ lastop' = Op("readline", TRUE)
    /\ UNCHANGED <<ws_col, foreign, input0, termios>>

RawNext == \E p \in Prompts : RawReadline(p)

Raw == RawInit /\ [][RawNext]_vars

\* sessions on a terminal and sessions on a stream that is none
Sessions == (ScriptInit \/ RawInit) /\ [][ScriptNext \/ RawNext]_vars

\* the application before it has made its session
MainInit ==
    /\ this = tinyrl_init
    /\ pc = "idle"
    /\ istream = <<>>
    /\ result = NullStr
    /\ ub = FALSE
    /\ ws_col = 0
    /\ foreign = FALSE
    /\ lastop = Op("main", TRUE)
    /\ transcript = <<>>
    /\ input0 = <<>>
    /\ termios = [tty |-> Cooked, saved |-> {}]

\* tinyrl_new on an input stream that holds the bytes in, a terminal cols
\* columns wide or a stream that is none
New(in, tty, cols) ==
    /\ pc = "idle"
    /\ lastop.op = "main"
    /\ this' = [tinyrl_init EXCEPT !.isatty = tty]
    /\ input0' = in
    /\ istream' = IF tty THEN <<>> ELSE in
    /\ ws_col' = cols
    /\ lastop' = Op("new", TRUE)
    /\ UNCHANGED <<pc, result, ub, foreign, transcript, termios>>

TerminatingNext ==
    \/ \E in \in Scripts, cols \in ScriptWsCols : New(in, TRUE, cols)
    \/ \E in \in RawInputs, cols \in WsCols : New(in, FALSE, cols)
    \/ ScriptNext
    \/ RawNext

\* the blocking read of tinyrl_readtty returns, a finite stream giving it
\* a byte or its end: weak fairness of ScriptKey, which is enabled exactly
\* in the states where the loop waits for a key
ReadReturns == []<>(~Editing) \/ []<><<ScriptKey>>_vars

\* the sessions in which the blocking read returns
Terminating == MainInit /\ [][TerminatingNext]_vars /\ ReadReturns

\* the same sessions with a read that may block for ever
Blocking == MainInit /\ [][TerminatingNext]_vars

-----------------------------------------------------------------------------
(* Sessions whose handlers change the echo policy and the line while a     *)
(* line is read.                                                           *)

tinyrl_enable_echo(s) == [s EXCEPT !.echo_enabled = TRUE]

PolicyKeys ==
    {<<97>>, <<195, 169>>, <<204, 129>>, SpecialSeq("LEFT"), <<BACKSPACE>>,
     <<CR>>}

\* a handler of the application calls tinyrl_disable_echo
HandlerDisableEcho(echo_char) ==
    /\ Editing
    /\ Stepped(LoopAround([Enter(this) EXCEPT
                               !.s = tinyrl_disable_echo(this, echo_char)],
                          ws_col))
    /\ lastop' = Op("disable_echo", TRUE)
    /\ UNCHANGED <<istream, ws_col, foreign, transcript, input0>>

\* a handler of the application calls tinyrl_enable_echo
HandlerEnableEcho ==
    /\ Editing
    /\ Stepped(LoopAround([Enter(this) EXCEPT !.s = tinyrl_enable_echo(this)],
                          ws_col))
    /\ lastop' = Op("enable_echo", TRUE)
    /\ UNCHANGED <<istream, ws_col, foreign, transcript, input0>>

PolicyNext ==
    \/ \E c \in EchoChars : ScriptEcho(c)
    \/ \E p \in Prompts : Readline(p)
    \/ \E k \in PolicyKeys : Key(k)
    \/ \E t \in SetTexts : SetLine(t)
    \/ \E c \in EchoChars : HandlerDisableEcho(c)
    \/ HandlerEnableEcho

Policy == Init /\ [][PolicyNext]_vars

-----------------------------------------------------------------------------
(* Sessions on terminals of several widths, with a prompt shorter than a   *)
(* row and one that fills a row of the narrowest terminal.                 *)

ScreenWsCols == {0, 2, 3}

ScreenPrompts == {<<62>>, <<62, 32>>}

ScreenKeys ==
    {<<97>>, <<195, 169>>, <<204, 129>>, SpecialSeq("LEFT"),
     SpecialSeq("RIGHT"), <<CTRL(65)>>, <<BACKSPACE>>, <<CTRL(68)>>,
     <<CTRL(76)>>, <<CR>>}

ScreenInit ==
    /\ this = tinyrl_init
    /\ pc = "idle"
    /\ istream = <<>>
    /\ result = NullStr
    /\ ub = FALSE
    /\ ws_col \in ScreenWsCols
    /\ foreign = FALSE
    /\ lastop = Op("new", TRUE)
    /\ transcript = <<>>
    /\ input0 = <<>>
    /\ termios = [tty |-> Cooked, saved |-> {}]

ScreenNext ==
    \/ \E p \in ScreenPrompts : Readline(p)
    \/ \E k \in ScreenKeys : Typed(k)

Screen == ScreenInit /\ [][ScreenNext]_vars

-----------------------------------------------------------------------------
(* Properties of the edit buffer (specification Spec) *)

\* 0 <= point <= end <= buffer_size and buffer[end] == 0
BufferInvariant(s) ==
    /\ 0 <= s.point
    /\ s.point <= s.end
    /\ s.end <= s.buffer_size
    /\ s.end < Len(s.buffer)
    /\ At(s.buffer, s.end) = NUL

\* C1 as stated: in every state reachable during a readline call by any
\* sequence of insert_text, delete_text, set_line, replace_line and built-in
\* key handlers, 0 <= point <= end <= buffer_size and buffer[end] == 0.
C1_AnySequence == Editing => BufferInvariant(this)

\* C1 as amended: in every state reachable during a readline call by any
\* sequence of insert_text, insert_text_len, delete_text, replace_line and
\* built-in key handlers, set_line not among them, no undefined behaviour
\* has happened, 0 <= point <= end <= buffer_size and buffer[end] == 0.
C1_WithoutSetLine ==
    ~foreign => (~ub /\ (Editing => BufferInvariant(this)))

\* a deletion has left text behind the cursor in a session without set_line
C1_Witness ==
    /\ Editing
    /\ ~foreign
    /\ lastop.op = "delete_text"
    /\ this.point < this.end
    /\ this.buffer_size >= GrowStep

\* the session s1 a successful insert_text(t) returns with, called in the
\* session s0 at cursor p with length e
InsertPost(s0, s1, t) ==
    LET p == s0.point
        e == s0.end
        n == Len(t)
        old == LineObj(s0)
        new == LineObj(s1)
    IN /\ s1.end = e + n
       /\ s1.point = p + n
       /\ Cells(new, p, p + n) = t
       /\ Cells(new, 0, p) = Cells(old, 0, p)
       /\ Cells(new, p + n, e + n) = Cells(old, p, e)
       /\ strlen(old) = e =>
              Bytes(new) = Cells(old, 0, p) \o t \o Cells(old, p, e)

\* C2: after any successful insert_text(t) at cursor p with line length e,
\* end' = e + len(t), point' = p + len(t), the bytes [p, p+len(t)) of the
\* line equal t, the prefix [0, p) is unchanged and the old suffix [p, e)
\* sits at [p+len(t), e+len(t)); a line that was e bytes long is then
\* exactly prefix, t, suffix.
C2_InsertText ==
    [][lastop' = Op("insert_text", TRUE) =>
           \A t \in Texts :
               LET x == tinyrl_insert_text(Enter(this), t) IN
               (InsertText(t) /\ x.ret) =>
                   (~x.ub /\ InsertPost(this, x.s, t))]_vars

\* an insert_text has succeeded in front of a suffix
C2_Witness ==
    /\ Editing
    /\ lastop = Op("insert_text", TRUE)
    /\ this.point > 0
    /\ this.point < this.end

\* the session s1 delete_text(a, b) returns with, called in the session s0
DeletePost(s0, s1, a, b) ==
    LET e == s0.end
        old == LineObj(s0)
        new == LineObj(s1)
    IN /\ s1.end = e - (b - a)
       /\ Cells(new, 0, a) = Cells(old, 0, a)
       /\ Cells(new, a, e - (b - a)) = Cells(old, b, e)
       /\ strlen(old) = e => Bytes(new) = Cells(old, 0, a) \o Cells(old, b, e)
       /\ s1.point = IF s0.point >= b THEN s0.point - (b - a)
                     ELSE IF s0.point > a THEN a
                     ELSE s0.point

\* C3: after any delete_text(a, b) with a <= b <= end, end' = end - (b-a),
\* the line is the old line with the bytes [a, b) removed, and
\* point' = point - (b-a) if point >= b, else a if point > a, else point.
C3_DeleteText ==
    [][lastop'.op = "delete_text" =>
           \A a \in 0..this.end : \A b \in a..this.end :
               LET x == tinyrl_delete_text(Enter(this), a, b) IN
               DeleteText(a, b) =>
                   (~x.ub /\ DeletePost(this, x.s, a, b))]_vars

\* a deletion has cut a character in two: its second byte starts the line
C3_Witness ==
    /\ Editing
    /\ lastop.op = "delete_text"
    /\ this.end >= 1
    /\ At(LineObj(this), 0) = 169

\* the session s1 after the edit that promotes the caller's string of s0:
\* line is the buffer, and the buffer holds the edited text
Promoted(s0, s1, edited) ==
    /\ s1.line = ToBuffer
    /\ Cells(s1.buffer, 0, s1.end) = edited
    /\ s0.end = Len(s0.line.text) => Bytes(s1.buffer) = edited

\* C4: when line refers to a caller-supplied string t installed by
\* set_line, the first successful insert_text or non-empty delete_text
\* promotes the line: afterwards line == buffer and the buffer holds t (its
\* first end bytes; all of t when end is still its length, as set_line left
\* it) with that edit applied.  The caller's string is the value line.text,
\* which no step writes.
C4_CopyOnWrite ==
    [][(/\ Editing
        /\ this.line.ref = "text"
        /\ lastop'.op \in {"insert_text", "delete_text"}) =>
          LET t == Obj(this.line.text)
              p == this.point
              e == this.end
          IN /\ \A u \in Texts :
                    LET x == tinyrl_insert_text(Enter(this), u) IN
                    (InsertText(u) /\ x.ret) =>
                        /\ ~x.ub
                        /\ Promoted(this, x.s,
                                    Cells(t, 0, p) \o u \o Cells(t, p, e))
             /\ \A a \in 0..e : \A b \in (a + 1)..e :
                    LET x == tinyrl_delete_text(Enter(this), a, b) IN
                    DeleteText(a, b) =>
                        /\ ~x.ub
                        /\ Promoted(this, x.s,
                                    Cells(t, 0, a) \o Cells(t, b, e))]_vars

\* an insert_text behind the caller's two-byte string has made the line
\* the buffer: the copy of that string, grown from its size
C4_Witness ==
    /\ Editing
    /\ foreign
    /\ lastop = Op("insert_text", TRUE)
    /\ this.line = ToBuffer
    /\ this.buffer_size = 2 + GrowStep
    /\ Bytes(this.buffer) = <<195, 169, 97>>

\* C5 as stated: after replace_line(text) succeeds in any editing state,
\* also when line refers to a caller-supplied string installed by set_line,
\* line == buffer, get_line() returns text, and point = end = len(text).
C5_ReplaceLine ==
    [][\A t \in AppTexts :
           LET x == tinyrl_replace_line(Enter(this), t, ws_col) IN
           (ReplaceLine(t) /\ x.ret) =>
               /\ ~x.ub
               /\ x.s.line = ToBuffer
               /\ Bytes(LineObj(x.s)) = t
               /\ x.s.point = Len(t)
               /\ x.s.end = Len(t)]_vars

\* C10 as stated: with max_line_length = n > 0, an insert_text_len call
\* that would make end >= n returns false, rings the bell, and leaves line
\* content, point and end unchanged.
C10_LimitRejects ==
    [][\A t \in AppTexts : \A d \in 1..Len(t) :
           LET x == tinyrl_insert_text_len(Enter(this), t, d) IN
           (/\ InsertTextLen(t, d)
            /\ this.max_line_length > 0
            /\ this.end + d >= this.max_line_length) =>
               /\ ~x.ub
               /\ ~x.ret
               /\ x.out = <<BEL>>
               /\ Bytes(LineObj(x.s)) = Bytes(LineObj(this))
               /\ x.s.point = this.point
               /\ x.s.end = this.end]_vars

-----------------------------------------------------------------------------
(* Properties of dispatch, display and whole sessions (specification       *)
(* Script)                                                                 *)

\* tinyrl_readline has returned
Returned ==
    /\ pc = "idle"
    /\ lastop.op \notin {"new", "limit_line_length", "bind_key", "disable_echo"}

\* how often byte b occurs in out
Count(b, out) == Cardinality({i \in DOMAIN out : out[i] = b})

RECURSIVE CharEnd(_, _, _)
\* the offset where the UTF-8 character that holds byte m of in (counted
\* from 1) ends, the characters being counted from offset pos
CharEnd(in, pos, m) ==
    LET n == utf8_char_len(in[pos + 1]) IN
    IF n = 0 \/ pos + n >= m \/ pos + n >= Len(in) THEN pos + n
    ELSE CharEnd(in, pos + n, m)

\* C6 as stated: for any bound key sequence S (here: one that ends with a
\* character, the longest bound prefix of the waiting input S ++ X),
\* dispatch consumes exactly |S| bytes of input, so the bytes of X are
\* still available to the next key read.
C6_ConsumesExactlyS ==
    [][LET k == KeyPass(this, istream, ws_col) IN
       (/\ ScriptKey
        /\ k.matched > 0
        /\ CharEnd(istream, 0, k.matched) = k.matched) =>
           istream' = SubSeq(istream, k.matched + 1, Len(istream))]_vars

\* C6 as amended: dispatch calls the handler of the longest bound prefix S
\* of the waiting input and reads the input in whole UTF-8 characters.
\* When the trie has no node below S it consumes exactly the characters
\* that hold S (|S| bytes when S ends with a character) and what follows
\* stays available to the next key read; when a node lies below S, it reads
\* on past S, and the bytes it has read past S are discarded.
C6_WholeKeysAndDiscard ==
    [][LET k == KeyPass(this, istream, ws_col)
           S == SubSeq(istream, 1, k.matched)
           keymap == KeymapOf(this)
           consumed == Len(istream) - Len(istream')
       IN (ScriptKey /\ k.matched > 0) =>
              /\ istream' = SubSeq(istream, consumed + 1, Len(istream))
              /\ lastop'.op = keymap.handler[S]
              /\ S \notin keymap.node => consumed = CharEnd(istream, 0, k.matched)
              /\ (S \in keymap.node /\ Len(istream) > k.matched) =>
                     consumed > k.matched]_vars

\* ESC is bound by the application and 'a' waits behind it: the handler of
\* ESC has run, 'a' is gone from the stream and is not in the line
C6_Witness ==
    /\ Editing
    /\ input0 = <<ESCAPE, 97>>
    /\ lastop = Op("app", TRUE)
    /\ istream = <<>>
    /\ this.end = 0

RECURSIVE SkipParams(_)
\* what follows the parameters and the final byte of a control sequence
SkipParams(out) ==
    IF out = <<>> THEN <<>>
    ELSE IF out[1] >= 48 /\ out[1] <= 57 THEN SkipParams(Tail(out))
    ELSE Tail(out)

RECURSIVE Visible(_)
\* the bytes of out that are text: not CR, LF or BEL, and not part of a
\* control sequence ESC [ ...
Visible(out) ==
    IF out = <<>> THEN <<>>
    ELSE IF out[1] = ESCAPE THEN Visible(SkipParams(Tail(Tail(out))))
    ELSE IF out[1] \in {CR, LF, BEL} THEN Visible(Tail(out))
    ELSE <<out[1]>> \o Visible(Tail(out))

\* a call of tinyrl_redisplay in the state the last redisplay has left
SecondRedisplay == tinyrl_redisplay(Enter(this), ws_col)

\* the line ends in the last column of a row of the terminal
EndsInLastColumn ==
    LET width == tinyrl__get_width(ws_col)
        prompt_at == tinyrl_string_wrap(Obj(this.prompt), Len(this.prompt),
                                        width, 0, 0)
    IN /\ this.end > 0
       /\ tinyrl_string_wrap(this.buffer, this.end, width,
                             prompt_at.row, prompt_at.col).col = width

\* C7 as stated: calling redisplay twice with no intervening change of
\* line, point, prompt, echo setting or terminal width writes no bytes to
\* the output stream on the second call.
C7_SecondCallSilent == Editing => SecondRedisplay.out = <<>>

\* C7 as amended: the second of two redisplay calls with no change between
\* them (of a line that is end bytes long) leaves the snapshot as it is and
\* writes neither the prompt nor the line again, except the last grapheme
\* of a line that ends in the last column; but it is not silent: it writes
\* CR, cursor motions and erase-to-end-of-line (ESC [ 0 K).
C7_SecondCallRepaintsNothing ==
    Editing =>
        LET r == SecondRedisplay IN
        /\ ~r.ub
        /\ r.s = this
        /\ Head(r.out) = CR
        /\ \E i \in 1..(Len(r.out) - 3) :
               SubSeq(r.out, i, i + 3) = <<ESCAPE, 91, 48, 75>>
        /\ Visible(r.out) =
               IF EndsInLastColumn
               THEN Cells(this.buffer,
                          utf8_grapheme_prev(this.buffer, this.end, this.end),
                          this.end)
               ELSE <<>>

\* a two-byte character has been typed and displayed with the cursor moved
\* back in front of it
C7_Witness ==
    /\ Editing
    /\ lastop = Op("key_left", TRUE)
    /\ this.point = 0
    /\ this.end = 2
    /\ this.last_buffer = <<195, 169, NUL>>

\* C8 as stated: for the input of one 2-byte UTF-8 codepoint, LEFT,
\* BACKSPACE, CR, readline returns the empty string and end == 0 at commit.
C8_ReturnsEmpty ==
    (input0 = Utf8Scenario /\ Returned) => (result = <<>> /\ this.end = 0)

\* C8 as amended: for the input of one 2-byte UTF-8 codepoint, LEFT,
\* BACKSPACE, CR, the BACKSPACE finds the cursor at the start of the line,
\* deletes nothing and rings the bell once; readline returns the codepoint
\* and end == 2 at commit.
C8_ReturnsCodepoint ==
    (input0 = Utf8Scenario /\ Returned) =>
        /\ result = <<195, 169>>
        /\ this.end = 2
        /\ Count(BEL, transcript) = 1

\* the session of the codepoint, LEFT, BACKSPACE, CR has returned
C8_Witness ==
    /\ input0 = Utf8Scenario
    /\ Returned
    /\ lastop = Op("key_crlf", TRUE)
    /\ istream = <<>>

\* C9 as stated: with limit_line_length(5), typing 6 single-byte printable
\* keys into an empty line in one readline call writes exactly one bell
\* byte in total, and the line stops growing at the capacity it reached.
C9_OneBell ==
    (input0 = LimitScenario /\ this.max_line_length = 5 /\ Returned) =>
        (Count(BEL, transcript) = 1 /\ Len(result) <= 5)

\* C9 as amended: with limit_line_length(5) the line holds at most 4 bytes;
\* of 6 single-byte printable keys typed into an empty line the fifth and
\* the sixth are refused, each with two bell bytes (one of
\* extend_line_buffer, one of the dispatch of a failed handler): four bell
\* bytes in total, and the line stops at 4 bytes.
C9_FourBells ==
    (input0 = LimitScenario /\ this.max_line_length = 5 /\ Returned) =>
        /\ Count(BEL, transcript) = 4
        /\ result = <<97, 97, 97, 97>>
        /\ this.end = 4
        /\ this.buffer_size = 4

\* the session of six keys and CR under the limit 5 has returned
C9_Witness ==
    /\ input0 = LimitScenario
    /\ this.max_line_length = 5
    /\ Returned
    /\ lastop = Op("key_crlf", TRUE)
    /\ istream = <<>>

-----------------------------------------------------------------------------
(* Properties of the kill string (specification Kill) *)

\* C11 as stated: Ctrl-K in any editing state, also when line refers to a
\* caller-supplied string installed by set_line, sets kill_string to the
\* bytes [point, end) of the current line, removes those bytes from the
\* line, and leaves point unchanged.
C11_KillTakesLine ==
    [][LET k == KeyPass(this, <<CTRL(75)>>, ws_col) IN
       Key(<<CTRL(75)>>) =>
           /\ ~k.x.ub
           /\ k.x.s.kill_string = Cells(LineObj(this), this.point, this.end)
           /\ Bytes(LineObj(k.x.s)) = Cells(LineObj(this), 0, this.point)
           /\ k.x.s.end = this.point
           /\ k.x.s.point = this.point]_vars

\* C12 as stated: Ctrl-Y when the kill string is empty, never set or set to
\* the empty string by a Ctrl-K at the end of the line, returns false, the
\* dispatcher rings the bell, and line, point and end are unchanged.
C12_EmptyYankFails ==
    [][LET k == KeyPass(this, <<CTRL(89)>>, ws_col) IN
       (Key(<<CTRL(89)>>) /\ this.kill_string \in {NullStr, <<>>}) =>
           /\ ~k.x.ub
           /\ ~k.ret
           /\ k.x.out = <<BEL>>
           /\ Bytes(LineObj(k.x.s)) = Bytes(LineObj(this))
           /\ k.x.s.point = this.point
           /\ k.x.s.end = this.end]_vars

-----------------------------------------------------------------------------
(* Properties of motion and deletion keys (specification Motion) *)

\* the keys that fail at the start of the line, and those that fail at its
\* end
BackwardKeys == {SpecialSeq("LEFT"), <<BACKSPACE>>}
ForwardKeys == {SpecialSeq("RIGHT"), <<CTRL(68)>>, SpecialSeq("DELETE")}

\* C13: LEFT or BACKSPACE with point == 0, and RIGHT, DELETE or Ctrl-D with
\* point == end, return false, ring the bell exactly once and leave line
\* content, point and end unchanged; away from the boundary these handlers
\* return true and ring no bell.
C13_BoundaryKeys ==
    [][\A b \in BackwardKeys \cup ForwardKeys :
           LET k == KeyPass(this, b, ws_col)
               boundary == IF b \in BackwardKeys THEN this.point = 0
                           ELSE this.point = this.end
           IN Typed(b) =>
                  /\ ~k.x.ub
                  /\ k.ret = ~boundary
                  /\ Count(BEL, k.x.out) = (IF boundary THEN 1 ELSE 0)
                  /\ boundary => k.x.s = this]_vars

\* RIGHT has failed at the end of a line of two characters
C13_Witness ==
    /\ Editing
    /\ lastop = Op("key_right", FALSE)
    /\ this.end = 3
    /\ this.point = this.end

-----------------------------------------------------------------------------
(* Properties of the interrupt key (specification Spec) *)

\* C14: Ctrl-C pressed in any editing state clears the line (end == 0 and
\* point == 0), sets done and commits the empty line: tinyrl_readline
\* returns the empty string, not null.
C14_InterruptReturnsEmpty ==
    [][Key(<<CTRL(67)>>) =>
           /\ ~ub'
           /\ this'.end = 0 /\ this'.point = 0 /\ this'.done
           /\ pc' = "idle"
           /\ result' = <<>>]_vars

-----------------------------------------------------------------------------
(* Properties of a failed read (specification Script) *)

\* C15: when the blocking key read meets the end of the stream, a read
\* error, a byte that is no UTF-8 lead byte or a character that fails
\* validation, the loop ends and tinyrl_readline returns null, whatever the
\* buffer holds.
C15_FailedReadReturnsNull ==
    [][(ScriptKey /\ tinyrl_getchar(istream).len <= 0) =>
           /\ ~ub'
           /\ pc' = "idle"
           /\ this'.done
           /\ result' = NullStr]_vars

\* a session that had a character in its buffer has returned null at a lead
\* byte followed by a byte that is no continuation byte
C15_Witness ==
    /\ Returned
    /\ input0 = BadContinuation
    /\ this.end = 1
    /\ result = NullStr

-----------------------------------------------------------------------------
(* Properties of non-interactive reading (specification Raw) *)

\* what the loop of tinyrl_readraw leaves in a call of tinyrl_readline made
\* in the current state
RawLoop(prompt) ==
    tinyrl_readraw(Enter(ReadlineInit(this, prompt)), istream, ws_col)

\* C16: when the chunk read returns null, tinyrl_readline returns null only
\* if the buffer is empty and the stream is at end-of-file; content that
\* was already appended (a final unterminated line that fills a whole chunk,
\* for one) is committed and returned.
C16_NullReadKeepsContent ==
    [][\A p \in Prompts :
           (RawReadline(p) /\ RawLoop(p).null) =>
               /\ ~ub'
               /\ result' = IF RawLoop(p).x.s.end = 0 THEN NullStr
                            ELSE Bytes(RawLoop(p).x.s.buffer)]_vars

\* the bytes before the first LF of the stream, and what follows that LF
FirstLine(in) == SubSeq(in, 1, First(in, LF) - 1)
AfterLine(in) == SubSeq(in, First(in, LF) + 1, Len(in))

\* a line with no CR, or with one CR as its last byte
CleanLine(line) ==
    \A i \in 1..(Len(line) - 1) : line[i] # CR

\* the line without the CR at its end
WithoutCR(line) ==
    IF line # <<>> /\ line[Len(line)] = CR
    THEN SubSeq(line, 1, Len(line) - 1) ELSE line

\* C17: an input line of any length, read in one chunk or in several, that
\* holds no CR except directly before its terminating LF, is returned
\* without its leading whitespace and its trailing CR and LF, its other
\* bytes preserved, and the next call of tinyrl_readline starts at the line
\* that follows.
C17_WholeLine ==
    [][\A p \in Prompts :
           (/\ RawReadline(p)
            /\ First(istream, LF) > 0
            /\ CleanLine(FirstLine(istream))) =>
               /\ ~ub'
               /\ result' = SkipSpace(WithoutCR(FirstLine(istream)))
               /\ istream' = AfterLine(istream)]_vars

-----------------------------------------------------------------------------
(* Properties of the strip on commit (specification Sessions) *)

\* the key pass of the current state up to the return of the handler,
\* before the strip
Handled ==
    tinyrl_handle_key(Enter(this), tinyrl_getchar(istream).key,
                      tinyrl_getchar(istream).rest, ws_col).x

\* the line without its last byte when that is ASCII whitespace
OneStripped(line) ==
    IF line # <<>> /\ line[Len(line)] \in {32, 9, 10, 11, 12, 13}
    THEN SubSeq(line, 1, Len(line) - 1) ELSE line

\* C18: on a terminal, when a handler sets done and the line is not empty,
\* exactly one trailing byte is removed if and only if it is ASCII
\* whitespace, and no second byte is stripped whatever it is; on a stream
\* that is no terminal no trailing byte is stripped.
C18_OneByteStripped ==
    [][/\ (/\ ScriptKey
           /\ tinyrl_getchar(istream).len > 0
           /\ Handled.s.done) =>
              /\ ~ub'
              /\ result' = OneStripped(Bytes(LineObj(Handled.s)))
       /\ \A p \in Prompts :
              (RawReadline(p) /\ RawLoop(p).x.s.end > 0 /\ ~RawLoop(p).null) =>
                  /\ ~ub'
                  /\ result' = Bytes(RawLoop(p).x.s.buffer)
                  /\ Len(result') = RawLoop(p).x.s.end]_vars

\* a line of a character and two spaces was committed on a terminal and
\* returned with one space
C18_Witness ==
    /\ Returned
    /\ this.isatty
    /\ input0 = <<97, 32, 32, CR>>
    /\ result = <<97, 32>>

-----------------------------------------------------------------------------
(* Properties of the terminal mode (specification Script) *)

\* the attributes tty_set_raw_mode sets
IsRaw(a) ==
    /\ a.c_iflag = {} /\ a.c_lflag = {}
    /\ a.c_oflag = {"OPOST", "ONLCR"}
    /\ a.VMIN = 1 /\ a.VTIME = 0

\* C19: on a terminal every call of tinyrl_readline saves the terminal
\* attributes and enters raw mode before the first key read, and restores
\* the saved attributes before it returns, on every exit path (commit,
\* Ctrl-C, end of input, invalid UTF-8 input).
C19_TerminalRestored ==
    [][/\ \A p \in Prompts :
              ScriptReadline(p) =>
                  /\ pc' = "editing"
                  /\ termios'.saved = {termios.tty}
                  /\ IsRaw(termios'.tty)
       /\ (ScriptKey /\ pc' = "editing") => termios' = termios
       /\ (ScriptKey /\ pc' # "editing") =>
              /\ pc' = "idle"
              /\ termios.saved = {termios'.tty}
              /\ termios'.saved = termios.saved]_vars

\* a call made on a terminal without echo has returned at Ctrl-C, and the
\* terminal is without echo again
C19_Witness ==
    /\ Returned
    /\ input0 = InterruptScenario
    /\ result = <<>>
    /\ termios = [tty |-> NoEcho, saved |-> {NoEcho}]

-----------------------------------------------------------------------------
(* Properties of the echo (specification Echo) *)

\* what tinyrl_redisplay displays in the current state
Displayed == tinyrl_internal_print(this)

\* the offsets in the first len bytes of line where a grapheme starts: a
\* character that is no combining mark, or the first character
GraphemeStarts(line, len) ==
    {i \in 0..(len - 1) :
        ~IsCont(At(line, i)) /\ (i = 0 \/ ~IsCombiningAt(line, len, i))}

\* the graphemes that lie before point
GraphemesBefore(line, len, point) ==
    {i \in GraphemeStarts(line, len) : utf8_grapheme_next(line, len, i) <= point}

\* C20: after tinyrl_disable_echo(c) with c != 0, redisplay renders exactly
\* one c for every grapheme of the line and places the display cursor at the
\* number of graphemes before point; with c == 0 it renders the empty
\* string.  In both cases line content, point and end are unchanged and
\* tinyrl_readline returns the bytes that were typed.
C20_EchoDisplay ==
    /\ []((Editing /\ ~this.echo_enabled) =>
            /\ Displayed.ok
            /\ this.last_buffer = Displayed.buffer
            /\ Displayed.buffer =
                   Obj(IF this.echo_char = NUL THEN <<>>
                       ELSE Rep(this.echo_char,
                                Cardinality(GraphemeStarts(LineObj(this),
                                                           this.end))))
            /\ Displayed.point =
                   IF this.echo_char = NUL THEN 0
                   ELSE Cardinality(GraphemesBefore(LineObj(this), this.end,
                                                    this.point))
            /\ SecondRedisplay.s.buffer = this.buffer
            /\ SecondRedisplay.s.line = this.line
            /\ SecondRedisplay.s.point = this.point
            /\ SecondRedisplay.s.end = this.end)
    /\ [][(/\ ScriptKey
           /\ ~this.echo_enabled
           /\ tinyrl_getchar(istream).len > 0
           /\ Handled.s.done) =>
              result' = OneStripped(Bytes(LineObj(Handled.s)))]_vars

-----------------------------------------------------------------------------
(* Properties of the dispatch (specification Script) *)

\* the lengths of the prefixes of in the walk through the keymap reaches:
\* every shorter prefix has a keymap below it
Walked(keymap, in) ==
    {n \in 1..Len(in) : \A m \in 1..(n - 1) : SubSeq(in, 1, m) \in keymap.node}

\* the length of the longest bound prefix of in among those, 0 if none is
\* bound
LongestBound(keymap, in) ==
    LET bound == {n \in Walked(keymap, in) :
                     SubSeq(in, 1, n) \in DOMAIN keymap.handler}
    IN IF bound = {} THEN 0
       ELSE CHOOSE n \in bound : \A m \in bound : m <= n

\* the handler bound to the first n bytes of in, "NULL" for n = 0
BoundTo(keymap, in, n) ==
    IF n = 0 THEN "NULL" ELSE keymap.handler[SubSeq(in, 1, n)]

\* C21: each key event the read loop dispatches invokes at most one
\* handler, the one bound to the longest bound prefix of the bytes walked
\* through the keymap (ESC [ D resolves to LEFT, not to three inserts); if
\* no prefix is bound the bell is rung and line, point and end are
\* unchanged; if the invoked handler returns false the bell is rung.
C21_LongestBoundPrefix ==
    [][LET k == KeyPass(this, istream, ws_col)
           n == LongestBound(KeymapOf(this), istream)
       IN (ScriptKey /\ tinyrl_getchar(istream).len > 0) =>
              /\ k.matched = n
              /\ k.handler = BoundTo(KeymapOf(this), istream, n)
              /\ lastop' = Op(k.handler, k.ret)
              /\ n = 0 =>
                     /\ ~k.ret
                     /\ Count(BEL, k.x.out) = 1
                     /\ Bytes(LineObj(k.x.s)) = Bytes(LineObj(this))
                     /\ k.x.s.point = this.point /\ k.x.s.end = this.end
              /\ ~k.ret => Count(BEL, k.x.out) >= 1
              /\ k.handler = "key_left" =>
                     /\ Bytes(LineObj(k.x.s)) = Bytes(LineObj(this))
                     /\ k.x.s.end = this.end]_vars

\* 'a', 'b', LEFT, 'X', CR has returned "aXb"
C21_Witness ==
    /\ Returned
    /\ input0 = EscapeScenario
    /\ lastop = Op("key_crlf", TRUE)
    /\ result = <<97, 88, 98>>

-----------------------------------------------------------------------------
(* Properties of the order of redisplay and read (specification Policy) *)

\* the rendering of the current line under the current echo policy: the
\* line itself, one echo character for each grapheme, or nothing
Rendering ==
    IF this.echo_enabled
    THEN [buffer |-> Obj(Bytes(LineObj(this))), end |-> this.end]
    ELSE IF this.echo_char = NUL THEN [buffer |-> Obj(<<>>), end |-> 0]
    ELSE [buffer |-> Obj(Rep(this.echo_char,
                             Cardinality(GraphemeStarts(LineObj(this),
                                                        this.end)))),
          end |-> Cardinality(GraphemeStarts(LineObj(this), this.end))]

\* C22: on a terminal every blocking key read is preceded by a redisplay
\* with no mutation of the buffer in between: at each blocking read the
\* snapshot of the redisplay (last_buffer, last_end) is the rendering of
\* the current line under the current echo policy.
C22_SnapshotAtRead ==
    Editing =>
        /\ ~ub
        /\ this.last_buffer = Rendering.buffer
        /\ this.last_end = Rendering.end

\* the loop waits for a key with the echo replaced by '*', after the line
\* has changed under that policy
C22_Witness ==
    /\ Editing
    /\ lastop = Op("key", TRUE)
    /\ ~this.echo_enabled /\ this.echo_char = 42
    /\ this.end = 3
    /\ this.last_end = 2

-----------------------------------------------------------------------------
(* Properties of the cursor of the terminal (specification Screen) *)

RECURSIVE CsiArg(_, _)
\* the parameter of a control sequence, out being what follows ESC [
CsiArg(out, n) ==
    IF out # <<>> /\ out[1] >= 48 /\ out[1] <= 57
    THEN CsiArg(Tail(out), 10 * n + (out[1] - 48))
    ELSE n

RECURSIVE CsiFinal(_)
\* the final byte of a control sequence, out being what follows ESC [
CsiFinal(out) ==
    IF out = <<>> THEN NUL
    ELSE IF out[1] >= 48 /\ out[1] <= 57 THEN CsiFinal(Tail(out))
    ELSE out[1]

Min(a, b) == IF a < b THEN a ELSE b

\* the cursor of a terminal w columns wide after the control sequence with
\* final byte f and parameter n: up, down and forward stop at the margin
\* and end a pending wrap, the erase sequences do not move the cursor,
\* and home is the corner of the screen.  A cursor in column w is in the
\* last column with the wrap pending.
TermControl(cur, f, n, w) ==
    LET count == IF n = 0 THEN 1 ELSE n
        col == Min(cur.col, w - 1)
    IN CASE f = 65 -> [row |-> cur.row - count, col |-> col]
         [] f = 66 -> [row |-> cur.row + count, col |-> col]
         [] f = 67 -> [row |-> cur.row, col |-> Min(col + count, w - 1)]
         [] f = 72 -> [row |-> 0, col |-> 0]
         [] OTHER -> cur

RECURSIVE TermWrite(_, _, _)
\* the cursor of a terminal w columns wide, in the output mode set by
\* tty_set_raw_mode (a newline is mapped to CR LF), after the bytes out
\* are written with the cursor at cur
TermWrite(cur, out, w) ==
    IF out = <<>> THEN cur
    ELSE IF out[1] = ESCAPE
    THEN TermWrite(TermControl(cur, CsiFinal(Tail(Tail(out))),
                               CsiArg(Tail(Tail(out)), 0), w),
                   SkipParams(Tail(Tail(out))), w)
    ELSE IF out[1] = CR
    THEN TermWrite([row |-> cur.row, col |-> 0], Tail(out), w)
    ELSE IF out[1] = LF
    THEN TermWrite([row |-> cur.row + 1, col |-> 0], Tail(out), w)
    ELSE IF out[1] = BEL \/ IsCont(out[1])
            \/ IsCombiningAt(out, Len(out), 0)
    THEN TermWrite(cur, Tail(out), w)
    ELSE IF cur.col + 1 > w
    THEN TermWrite([row |-> cur.row + 1, col |-> 1], Tail(out), w)
    ELSE TermWrite([row |-> cur.row, col |-> cur.col + 1], Tail(out), w)

\* where the first len bytes of the line of s end in the rendering of
\* the prompt followed by the line on a terminal w columns wide
RenderedTo(s, len, w) ==
    TermWrite([row |-> 0, col |-> 0],
              s.prompt \o Cells(LineObj(s), 0, len), w)

\* the row and column where point falls in that rendering: column 0 of
\* the next row when the column equals w
PointCell(s, w) ==
    LET at == RenderedTo(s, s.point, w)
    IN IF at.col = w THEN [row |-> at.row + 1, col |-> 0] ELSE at

\* the redisplay of s has left the cursor cur where point falls, and
\* last_row and last_point_row are the end row and the cursor row
CursorAtPoint(s, cur, w) ==
    /\ cur = PointCell(s, w)
    /\ s.last_row = RenderedTo(s, s.end, w).row
    /\ s.last_point_row = PointCell(s, w).row

\* the call that begins to read a line, and the pass of a key
FirstRender(prompt) == ReadlineEnter(this, prompt, ws_col)
KeyRender(burst) == LoopAround(KeyPass(this, burst, ws_col).x, ws_col)

\* C23: after each redisplay on a terminal of width W the cursor of the
\* terminal is at the row and column where point falls in the rendering
\* of the prompt followed by the line, wrapped at W (column 0 of the next
\* row when that column equals W), and last_row and last_point_row are
\* the end row and the cursor row of that rendering; for the first render
\* and for every render after an insert, a delete or a cursor motion.
C23_CursorAtPoint ==
    [][LET w == tinyrl__get_width(ws_col) IN
       /\ \A p \in ScreenPrompts :
              Readline(p) =>
                  CursorAtPoint(this', TermWrite([row |-> 0, col |-> 0],
                                                 FirstRender(p).out, w), w)
       /\ \A b \in ScreenKeys :
              (Typed(b) /\ pc' = "editing") =>
                  CursorAtPoint(this',
                                TermWrite(PointCell(this, w),
                                          KeyRender(b).out, w), w)]_vars

\* the prompt ends in the last column of a row
PromptFillsRow(s, w) == RenderedTo(s, 0, w).col = w

\* the cursor is where point falls after every render of a line whose
\* prompt does not end in the last column of a row
C23_PromptInsideRow ==
    [][LET w == tinyrl__get_width(ws_col) IN
       \A b \in ScreenKeys :
           (Typed(b) /\ pc' = "editing" /\ ~PromptFillsRow(this, w)) =>
               CursorAtPoint(this',
                             TermWrite(PointCell(this, w),
                                       KeyRender(b).out, w), w)]_vars

-----------------------------------------------------------------------------
(* Termination (specification Terminating) *)

\* the depth of the keymap: one more than the longest sequence that leads
\* to a keymap below the first
TrieDepth(keymap) ==
    1 + (CHOOSE d \in 0..8 :
             /\ \A n \in keymap.node : Len(n) <= d
             /\ d = 0 \/ \E n \in keymap.node : Len(n) = d)

\* the passes of the loop of tinyrl_handle_key for the key g
WalkSteps(s, g) ==
    WalkKeymap(KeymapOf(s), <<>>, g.key, 0, g.rest,
               [handler |-> "NULL", matched |-> 0]).steps

RECURSIVE RawStop(_)
\* the bytes up to the end of the first short chunk of in, one that holds
\* a line terminator or does not fill the buffer, or to the null read
RawStop(in) ==
    LET g == fgets(in, ChunkSize) IN
    IF g.s = NullStr THEN 0
    ELSE IF Len(g.s) < ChunkSize - 1 \/ \E i \in DOMAIN g.s : g.s[i] \in {CR, LF}
    THEN Len(g.s)
    ELSE Len(g.s) + RawStop(g.rest)

\* a pass of the loop on a terminal takes at least one byte of the stream
\* or ends the call at the end of the stream; the dispatch of a key takes
\* no more passes than the keymap is deep
KeyStepBounded ==
    ScriptKey =>
        LET g == tinyrl_getchar(istream) IN
        /\ istream # <<>> => Len(istream') < Len(istream)
        /\ g.len <= 0 => pc' = "idle"
        /\ pc' = "editing" => (g.len > 0 /\ ~this'.done)
        /\ g.len > 0 =>
               /\ WalkSteps(this, g) >= 1
               /\ WalkSteps(this, g) <= TrieDepth(KeymapOf(this))

\* a call on a stream that is no terminal returns, having read to the end
\* of the first short chunk or to the null read
RawStepBounded ==
    (RawNext /\ ~ub') =>
        /\ pc' = "idle"
        /\ Len(istream) - Len(istream') = RawStop(istream)

\* C24: for every finite input stream a call of readline terminates: the
\* loop on a terminal takes at least one byte of the input at each pass
\* until a handler sets done or the read hits the end of the stream, each
\* dispatch of a key stops after at most as many steps as the keymap is
\* deep, and the loop on a stream that is no terminal stops at the first
\* short chunk or null read.
C24_ReadlineTerminates ==
    /\ Editing ~> pc = "idle"
    /\ [][KeyStepBounded /\ RawStepBounded]_vars

\* a call has returned at the end of a stream of three keys that held no
\* CR, the last of them the three bytes of LEFT
C24_Witness ==
    /\ Returned
    /\ input0 = <<97, 97>> \o SpecialSeq("LEFT")
    /\ istream = <<>>
    /\ result = NullStr

=============================================================================
